---- MODULE Spec2Model ----
(***************************************************************************)
(* ircservserv: the ChanServ listener (chanserv.rs), the shared BotState   *)
(* (lib.rs), the !issync sequencer (command.rs), the list-reply handler    *)
(* (main.rs) and the flag/mode diff (channel.rs).                          *)
(***************************************************************************)
EXTENDS Integers, Sequences, FiniteSets, TLC

\* ------------------------------------------------------------------ bounds
\* number of !issync requests (sync tasks) of one run
MaxSyncs == 2
\* most entries of a room's access list (the data lines of a flags report)
MaxLines == 1
\* most entries of a room's ban list
MaxEntries == 1
\* ChanServ sends an unsolicited notice only into a queue shorter than this
MaxQueue == 1
\* most accounts with live letters in an input of the diff on its own
MaxHeld == 1
\* most tier entries of a configuration given to the diff on its own
MaxListed == 2

\* ------------------------------------------------------------- input sets
None == "none"
Rooms == {"#a", "#b"}
\* response targets of a request: a room, or the requestor's nick (a PM)
PmTarget == "nick"
\* accounts that ask for a sync; "alice" is a configured bot owner
Owners == {"alice"}
Requestors == {"alice", "bob"}
Syncs == 1..MaxSyncs

\* ------------------------------------------------ channel.rs: the constants
FOUNDER == {"A", "F", "R", "e", "f", "i", "o", "r", "s", "t", "v"}
CRAT == {"A", "f", "i", "o", "r", "t", "v"}
OP == {"A", "i", "o", "t", "v"}
PLUS_O == {"o"}
AUTOVOICE == {"V", "v"}
GLOBAL_BANS == "$j:#wikimedia-bans"
LIBERA_STAFF == "*!*@libera/staff/*"
LITHARGE == "litharge"
WMOPBOT == "wmopbot"
\* main.rs: the letter string that marks a founder line
FLAGS_FOUNDER == <<"A", "F", "R", "e", "f", "i", "o", "r", "s", "t", "v">>

\* code points of the access letters and of the two signs
CodePoint ==
  [c \in {"+", "-", "A", "F", "R", "V", "e", "f", "i", "o", "r", "s", "t", "v"} |->
     CASE c = "+" -> 43 [] c = "-" -> 45
       [] c = "A" -> 65 [] c = "F" -> 70 [] c = "R" -> 82 [] c = "V" -> 86
       [] c = "e" -> 101 [] c = "f" -> 102 [] c = "i" -> 105 [] c = "o" -> 111
       [] c = "r" -> 114 [] c = "s" -> 115 [] c = "t" -> 116 [] c = "v" -> 118]

\* Vec::sort_unstable on chars: ascending code point
RECURSIVE SortChars(_)
SortChars(S) ==
  IF S = {} THEN <<>>
  ELSE LET m == CHOOSE x \in S : \A y \in S : CodePoint[x] <= CodePoint[y]
       IN <<m>> \o SortChars(S \ {m})

SeqToSet(s) == {s[i] : i \in DOMAIN s}

\* parse_flags: the set of the chars of the input, signs skipped
parse_flags(input) == {input[i] : i \in {j \in DOMAIN input : input[j] \notin {"+", "-"}}}

\* ManagedChannel::default(), with the founders set lib.rs reads
DefaultChannel ==
  [bans |-> {}, invexes |-> {}, current |-> <<>>, founders |-> {},
   flags_done |-> FALSE, bans_done |-> FALSE, invexes_done |-> FALSE]

\* HashMap::insert: the key's earlier value is replaced
MapInsert(f, k, v) == [x \in DOMAIN f \cup {k} |-> IF x = k THEN v ELSE f[x]]
MapRemove(f, k) == [x \in DOMAIN f \ {k} |-> f[x]]

\* Option<String>, the string as its chars
NoMode == [some |-> FALSE, mode |-> <<>>]
SomeMode(mode) == [some |-> TRUE, mode |-> mode]

\* to_mode that forgets the letters to remove
to_modeNoRemove(change) ==
  IF change.current = change.should THEN NoMode
  ELSE LET add == SortChars(change.should \ change.current)
       IN SomeMode(IF add # <<>> THEN <<"+">> \o add ELSE <<>>)

\* to_mode with the two pushes in the other order: "+" added, then "-" removed
to_modeAddFirst(change) ==
  IF change.current = change.should THEN NoMode
  ELSE LET remove == SortChars(change.current \ change.should)
           add == SortChars(change.should \ change.current)
       IN SomeMode((IF add # <<>> THEN <<"+">> \o add ELSE <<>>)
                   \o (IF remove # <<>> THEN <<"-">> \o remove ELSE <<>>))

\* FlagChange::to_mode: None when equal, else "-" removed then "+" added
to_mode(change) ==
  IF change.current = change.should THEN NoMode
  ELSE LET remove == SortChars(change.current \ change.should)
           add == SortChars(change.should \ change.current)
       IN SomeMode((IF remove # <<>> THEN <<"-">> \o remove ELSE <<>>)
                   \o (IF add # <<>> THEN <<"+">> \o add ELSE <<>>))

\* is_done that forgets the invex list
is_doneTwo(m) == m.flags_done /\ m.bans_done

\* ManagedChannel::is_done
is_done(m) == m.flags_done /\ m.bans_done /\ m.invexes_done

\* Should whose staff grant forgets litharge
ShouldStaffMaskOnly(cfg, name) ==
  (IF name \in cfg.founders THEN FOUNDER ELSE {})
  \cup (IF name \in cfg.crats THEN CRAT ELSE {})
  \cup (IF name \in cfg.ops THEN OP ELSE {})
  \cup (IF name \in cfg.plus_o THEN PLUS_O ELSE {})
  \cup (IF name \in cfg.autovoice THEN AUTOVOICE ELSE {})
  \cup (IF cfg.libera_staff /\ name = LIBERA_STAFF THEN PLUS_O ELSE {})
  \cup (IF cfg.wmopbot /\ name = WMOPBOT THEN {"o", "t"} ELSE {})

\* Should with insert in place of extend: the letters of the last tier that
\* lists the account, then the grants
ShouldLastTier(cfg, name) ==
  (IF name \in cfg.autovoice THEN AUTOVOICE
   ELSE IF name \in cfg.plus_o THEN PLUS_O
   ELSE IF name \in cfg.ops THEN OP
   ELSE IF name \in cfg.crats THEN CRAT
   ELSE IF name \in cfg.founders THEN FOUNDER
   ELSE {})
  \cup (IF cfg.libera_staff /\ name \in {LIBERA_STAFF, LITHARGE} THEN PLUS_O ELSE {})
  \cup (IF cfg.wmopbot /\ name = WMOPBOT THEN {"o", "t"} ELSE {})

\* the letters fix_flags unions into one account's `should`
Should(cfg, name) ==
  (IF name \in cfg.founders THEN FOUNDER ELSE {})
  \cup (IF name \in cfg.crats THEN CRAT ELSE {})
  \cup (IF name \in cfg.ops THEN OP ELSE {})
  \cup (IF name \in cfg.plus_o THEN PLUS_O ELSE {})
  \cup (IF name \in cfg.autovoice THEN AUTOVOICE ELSE {})
  \cup (IF cfg.libera_staff /\ name \in {LIBERA_STAFF, LITHARGE} THEN PLUS_O ELSE {})
  \cup (IF cfg.wmopbot /\ name = WMOPBOT THEN {"o", "t"} ELSE {})

\* ChangeNames without the loop over self.current: the configured accounts only
ChangeNamesListedOnly(m, cfg) ==
  cfg.founders \cup cfg.crats \cup cfg.ops \cup cfg.plus_o \cup cfg.autovoice
  \cup (IF cfg.libera_staff THEN {LIBERA_STAFF, LITHARGE} ELSE {})
  \cup (IF cfg.wmopbot THEN {WMOPBOT} ELSE {})

\* the keys of fix_flags' `changes` map
ChangeNames(m, cfg) ==
  DOMAIN m.current \cup cfg.founders \cup cfg.crats \cup cfg.ops \cup cfg.plus_o
  \cup cfg.autovoice
  \cup (IF cfg.libera_staff THEN {LIBERA_STAFF, LITHARGE} ELSE {})
  \cup (IF cfg.wmopbot THEN {WMOPBOT} ELSE {})

\* fix_flags without the filter: a pair for every key, changed or not
fix_flagsNoFilter(m, cfg) ==
  LET change(name) ==
        [current |-> IF name \in DOMAIN m.current THEN m.current[name] ELSE {},
         should |-> Should(cfg, name)]
  IN {<<name, to_mode(change(name)).mode>> : name \in ChangeNames(m, cfg)}

\* ManagedChannel::fix_flags: the (account, mode) pairs, as a set (the Vec is in
\* HashMap iteration order)
fix_flags(m, cfg) ==
  LET change(name) ==
        [current |-> IF name \in DOMAIN m.current THEN m.current[name] ELSE {},
         should |-> Should(cfg, name)]
  IN {<<name, to_mode(change(name)).mode>> :
        name \in {n \in ChangeNames(m, cfg) : to_mode(change(n)).some}}

\* fix_modes without its else-if branch: the mask is set, never lifted
fix_modesNoRemove(m, cfg) ==
  IF cfg.global_bans /\ GLOBAL_BANS \notin m.bans THEN <<<<"+b", GLOBAL_BANS>>>>
  ELSE <<>>

\* ManagedChannel::fix_modes
fix_modes(m, cfg) ==
  IF cfg.global_bans /\ GLOBAL_BANS \notin m.bans THEN <<<<"+b", GLOBAL_BANS>>>>
  ELSE IF ~cfg.global_bans /\ GLOBAL_BANS \in m.bans THEN <<<<"-b", GLOBAL_BANS>>>>
  ELSE <<>>

\* add_flags_from_chanserv that adds the letters of the line to the letters
\* recorded for the account
add_flags_from_chanservExtend(m, line) ==
  IF line.kind = "data"
  THEN [m EXCEPT !.current =
          MapInsert(m.current, line.account,
                    (IF line.account \in DOMAIN m.current THEN m.current[line.account] ELSE {})
                    \cup parse_flags(line.letters))]
  ELSE m

\* ManagedChannel::add_flags_from_chanserv: a line the record pattern matches
\* sets the account's entry; any other line is an error and changes nothing
add_flags_from_chanserv(m, line) ==
  IF line.kind = "data"
  THEN [m EXCEPT !.current = MapInsert(m.current, line.account, parse_flags(line.letters))]
  ELSE m

\* main.rs add_chanserv: the account of a line whose letters are the founder
\* string joins `founders`, the field BotState::is_founder_on reads
add_chanserv_founders(m, line) ==
  IF line.kind = "data" /\ line.letters = FLAGS_FOUNDER
  THEN [m EXCEPT !.founders = @ \cup {line.account}]
  ELSE m

\* ------------------------------------------------------------------ state
VARIABLES
  chanserv,   \* BotState.chanserv: the room whose flags are being read, or None
  channels,   \* BotState.channels: room -> ManagedChannel
  csq,        \* the mpsc channel into listen(): Flags requests and ChanServ notices
  lpc,        \* where listen() is: "recv", "poll" (its wait loop), "panic"
  lchan,      \* the channel of the Flags message listen() is handling
  csin,       \* flags queries ChanServ has not answered to the end, oldest first
  csrep,      \* the report ChanServ is sending: header sent, entries sent
  opreq,      \* rooms with an "op" request ChanServ has not served yet
  srvin,      \* list queries the server has not answered to the end, oldest first
  sn,         \* entries the server has listed for the list query it is answering
  opped,      \* rooms where the bot's own entry shows op (is_opped_in)
  pc,         \* per sync: where iss_sync / its spawned task is
  req,        \* per sync: the request (response target, account tag)
  work,       \* per sync: the commands its diff made, until they are sent
  out,        \* per sync: what it has sent, in order
  live,       \* the rooms on the network: access list, ban list, invex list
  hist,       \* history: what became of the last notice the listener handled
  pure        \* the diff on its own: its inputs, its result, and how far it is

vars == <<chanserv, channels, csq, lpc, lchan, csin, csrep, opreq, srvin, sn,
          opped, pc, req, work, out, live, hist, pure>>

listenVars == <<lpc, lchan>>
csVars == <<csin, csrep, opreq>>
srvVars == <<srvin, sn>>
syncVars == <<pc, req, work, out>>

\* chanserv::Message::Flags(channel)
FlagsMsg(room) ==
  [type |-> "Flags", channel |-> room, kind |-> None, account |-> None,
   letters |-> <<>>, from |-> None]

\* chanserv::Message::Notice(text). kind is what the listener's prefix tests and
\* the record pattern make of the text: "rule" (starts with the dashes), "header"
\* (starts with "Entry    Nickname/Host"), "end" (starts with "End of"), "data"
\* (the pattern matches: account and letters are its captures), "other" (none of
\* these). from is the room of the query the line answers (history only).
NoticeMsg(kind, account, letters, from) ==
  [type |-> "Notice", channel |-> None, kind |-> kind, account |-> account,
   letters |-> letters, from |-> from]

\* what the rooms are on the network: the access list ChanServ reports, as
\* (account, letters), and the ban list the server reports; no invite exception
\* is set
AccessEntries ==
  {<<"bob", FLAGS_FOUNDER>>, <<"bob", <<"A", "i", "o", "t", "v">>>>,
   <<"dave", <<"A", "i", "o", "t", "v">>>>}

AccessLists ==
  {l \in UNION {[1..n -> AccessEntries] : n \in 1..MaxLines} :
     /\ l[1][1] = "bob"
     /\ \A i, j \in DOMAIN l : l[i][1] = l[j][1] => i = j}

BanLists ==
  {l \in UNION {[1..n -> {GLOBAL_BANS}] : n \in 0..MaxEntries} :
     \A i, j \in DOMAIN l : l[i] = l[j] => i = j}

LiveStates == [flags : AccessLists, bans : BanLists, invexes : {<<>>}]

\* ChanServ between two reports
NoReport == [n |-> 0, hdr |-> FALSE]

NoWork == [flag_cmds |-> {}, mode_cmds |-> <<>>]

\* ConfiguredChannel::default()
DefaultConfig ==
  [founders |-> {}, crats |-> {}, ops |-> {}, plus_o |-> {}, autovoice |-> {},
   global_bans |-> FALSE, libera_staff |-> FALSE, wmopbot |-> FALSE, invexes |-> {}]

\* the diff on its own is not run
NoPure ==
  [phase |-> "off", managed |-> DefaultChannel, cfg |-> DefaultConfig,
   flag_cmds |-> {}, mode_cmds |-> <<>>, sent |-> 0,
   line |-> NoticeMsg(None, None, <<>>, None)]

Init ==
  /\ pure = NoPure
  /\ chanserv = None
  /\ channels = <<>>
  /\ csq = <<>>
  /\ lpc = "recv"
  /\ lchan = None
  /\ csin = <<>>
  /\ csrep = NoReport
  /\ opreq = {}
  /\ srvin = <<>>
  /\ sn = 0
  /\ opped = {}
  /\ pc = [s \in Syncs |-> "idle"]
  /\ req = [s \in Syncs |-> [target |-> None, account |-> None]]
  /\ work = [s \in Syncs |-> NoWork]
  /\ out = [s \in Syncs |-> <<>>]
  /\ live \in LiveStates
  /\ hist = [did |-> None, looking |-> None, kind |-> None, from |-> None]

\* ------------------------------------------------- lib.rs: BotState readers
is_channel_done(ch, channel) ==
  IF channel \in DOMAIN ch THEN is_done(ch[channel]) ELSE FALSE

is_flags_done(ch, channel) ==
  IF channel \in DOMAIN ch THEN ch[channel].flags_done ELSE FALSE

is_founder_on(ch, channel, username) ==
  IF channel \in DOMAIN ch THEN username \in ch[channel].founders ELSE FALSE

\* HashMap::entry(channel).or_default()
OrDefault(ch, channel) ==
  IF channel \in DOMAIN ch THEN ch ELSE MapInsert(ch, channel, DefaultChannel)

\* --------------------------------------------------- chanserv.rs: listen()
\* w.chanserv = Some(Flags(channel)), then send_privmsg("ChanServ", "flags <channel>")
TakeSlot(channel) ==
  /\ chanserv' = channel
  /\ csin' = Append(csin, channel)
  /\ lpc' = "recv"
  /\ lchan' = None

\* ListenRecvFlags without the is_some() test: the slot is taken at once
ListenRecvFlagsNoWait ==
  /\ lpc = "recv"
  /\ csq # <<>>
  /\ Head(csq).type = "Flags"
  /\ csq' = Tail(csq)
  /\ TakeSlot(Head(csq).channel)
  /\ UNCHANGED <<live, pure, channels, csrep, opreq, srvVars, opped, syncVars, hist>>

\* Message::Flags received: the slot is read; free, it is taken and the query
\* sent; taken, the listener starts its 200 ms loop
ListenRecvFlags ==
  /\ lpc = "recv"
  /\ csq # <<>>
  /\ Head(csq).type = "Flags"
  /\ csq' = Tail(csq)
  /\ IF chanserv # None
     THEN /\ lpc' = "poll"
          /\ lchan' = Head(csq).channel
          /\ UNCHANGED <<chanserv, csin>>
     ELSE TakeSlot(Head(csq).channel)
  /\ UNCHANGED <<live, pure, channels, csrep, opreq, srvVars, opped, syncVars, hist>>

\* ListenPoll with a loop that breaks after its first turn
ListenPollOnce ==
  /\ lpc = "poll"
  /\ TakeSlot(lchan)
  /\ UNCHANGED <<live, pure, channels, csq, csrep, opreq, srvVars, opped, syncVars, hist>>

\* one turn of the loop: the slot is read again, and taken once it is free
ListenPoll ==
  /\ lpc = "poll"
  /\ IF chanserv # None
     THEN UNCHANGED <<chanserv, csin, lpc, lchan>>
     ELSE TakeSlot(lchan)
  /\ UNCHANGED <<live, pure, channels, csq, csrep, opreq, srvVars, opped, syncVars, hist>>

\* IsSkipped that knows the dashed rule only
IsSkippedRuleOnly(notice) == notice.kind = "rule"

\* the two prefixes the listener skips: the dashed rule and the report's title
IsSkipped(notice) == notice.kind \in {"rule", "header"}

\* the history of one handled notice: skipped, dropped, or taken for the room
\* the slot names
Noted(notice, looking) ==
  [did |-> IF IsSkipped(notice) THEN "skip" ELSE IF looking = None THEN "drop" ELSE "take",
   looking |-> looking, kind |-> notice.kind, from |-> notice.from]

\* ListenNotice that unwraps the result of add_flags_from_chanserv: a line the
\* pattern does not match ends the listener
ListenNoticeUnwrap ==
  /\ lpc = "recv"
  /\ csq # <<>>
  /\ Head(csq).type = "Notice"
  /\ LET notice == Head(csq)
         looking == chanserv
     IN /\ csq' = Tail(csq)
        /\ hist' = Noted(notice, looking)
        /\ IF IsSkipped(notice)
           THEN UNCHANGED <<chanserv, channels, lpc>>
           ELSE IF looking = None
           THEN UNCHANGED <<chanserv, channels, lpc>>
           ELSE IF notice.kind = "end"
           THEN IF looking \in DOMAIN channels
                THEN /\ channels' = [channels EXCEPT ![looking].flags_done = TRUE]
                     /\ chanserv' = None
                     /\ UNCHANGED lpc
                ELSE \* get_mut(channel).unwrap() on a missing key: the task panics
                     /\ lpc' = "panic"
                     /\ UNCHANGED <<chanserv, channels>>
           ELSE IF notice.kind # "data"
           THEN /\ channels' = OrDefault(channels, looking)
                /\ lpc' = "panic"
                /\ UNCHANGED chanserv
           ELSE /\ channels' =
                     LET ch == OrDefault(channels, looking)
                     IN [ch EXCEPT ![looking] =
                           add_chanserv_founders(add_flags_from_chanserv(@, notice), notice)]
                /\ UNCHANGED <<chanserv, lpc>>
  /\ UNCHANGED <<live, pure, lchan, csVars, srvVars, opped, syncVars>>

\* Message::Notice received
ListenNotice ==
  /\ lpc = "recv"
  /\ csq # <<>>
  /\ Head(csq).type = "Notice"
  /\ LET notice == Head(csq)
         looking == chanserv
     IN /\ csq' = Tail(csq)
        /\ hist' = Noted(notice, looking)
        /\ IF IsSkipped(notice)
           THEN UNCHANGED <<chanserv, channels, lpc>>
           ELSE IF looking = None
           THEN UNCHANGED <<chanserv, channels, lpc>>
           ELSE IF notice.kind = "end"
           THEN IF looking \in DOMAIN channels
                THEN /\ channels' = [channels EXCEPT ![looking].flags_done = TRUE]
                     /\ chanserv' = None
                     /\ UNCHANGED lpc
                ELSE \* get_mut(channel).unwrap() on a missing key: the task panics
                     /\ lpc' = "panic"
                     /\ UNCHANGED <<chanserv, channels>>
           ELSE /\ channels' =
                     LET ch == OrDefault(channels, looking)
                     IN [ch EXCEPT ![looking] =
                           add_chanserv_founders(add_flags_from_chanserv(@, notice), notice)]
                /\ UNCHANGED <<chanserv, lpc>>
  /\ UNCHANGED <<live, pure, lchan, csVars, srvVars, opped, syncVars>>

\* ------------------------------------------------------- the environment
\* ChanServ answers the flags queries in order, each by a report: the header
\* line, the entries (at least one: a registered room has a founder), then the
\* "End of" line
CsLine ==
  /\ csin # <<>>
  /\ IF ~csrep.hdr
     THEN /\ csq' = Append(csq, NoticeMsg("header", None, <<>>, Head(csin)))
          /\ csrep' = [csrep EXCEPT !.hdr = TRUE]
     ELSE /\ csrep.n < Len(live.flags)
          /\ csq' = Append(csq, NoticeMsg("data", live.flags[csrep.n + 1][1],
                                          live.flags[csrep.n + 1][2], Head(csin)))
          /\ csrep' = [csrep EXCEPT !.n = @ + 1]
  /\ UNCHANGED <<live, pure, chanserv, channels, listenVars, csin, opreq, srvVars, opped,
                 syncVars, hist>>

CsEnd ==
  /\ csin # <<>>
  /\ csrep.hdr
  /\ csrep.n = Len(live.flags)
  /\ csq' = Append(csq, NoticeMsg("end", None, <<>>, Head(csin)))
  /\ csin' = Tail(csin)
  /\ csrep' = NoReport
  /\ UNCHANGED <<live, pure, chanserv, channels, listenVars, opreq, srvVars, opped, syncVars,
                 hist>>

\* "op <room>": the bot's entry in the room's user list gets op
CsOp ==
  /\ \E room \in opreq :
       /\ opped' = opped \cup {room}
       /\ opreq' = opreq \ {room}
  /\ UNCHANGED <<live, pure, chanserv, channels, csq, listenVars, csin, csrep, srvVars,
                 syncVars, hist>>

\* handle_response with one list for both replies: an invite exception is
\* inserted into the bans
handle_responseOneList(ch, resp, room, entry) ==
  LET c == OrDefault(ch, room)
  IN CASE resp = "RPL_BANLIST" -> [c EXCEPT ![room].bans = @ \cup {entry}]
       [] resp = "RPL_ENDOFBANLIST" -> [c EXCEPT ![room].bans_done = TRUE]
       [] resp = "RPL_INVITELIST" -> [c EXCEPT ![room].bans = @ \cup {entry}]
       [] resp = "RPL_ENDOFINVITELIST" -> [c EXCEPT ![room].invexes_done = TRUE]
       [] OTHER -> ch

\* main.rs handle_response, for the room data[1] and the entry data[2]
handle_response(ch, resp, room, entry) ==
  LET c == OrDefault(ch, room)
  IN CASE resp = "RPL_BANLIST" -> [c EXCEPT ![room].bans = @ \cup {entry}]
       [] resp = "RPL_ENDOFBANLIST" -> [c EXCEPT ![room].bans_done = TRUE]
       [] resp = "RPL_INVITELIST" -> [c EXCEPT ![room].invexes = @ \cup {entry}]
       [] resp = "RPL_ENDOFINVITELIST" -> [c EXCEPT ![room].invexes_done = TRUE]
       [] OTHER -> ch

\* the list a query asks for
Listed(query) == IF query.cmd = "listb" THEN live.bans ELSE live.invexes

\* the server answers a list query entry by entry; the processor hands each
\* reply to handle_response
SrvListEntry ==
  /\ srvin # <<>>
  /\ Head(srvin).cmd \in {"listb", "listI"}
  /\ sn < Len(Listed(Head(srvin)))
  /\ sn' = sn + 1
  /\ channels' = handle_response(channels,
                   IF Head(srvin).cmd = "listb" THEN "RPL_BANLIST" ELSE "RPL_INVITELIST",
                   Head(srvin).room, Listed(Head(srvin))[sn + 1])
  /\ UNCHANGED <<live, pure, chanserv, csq, listenVars, csVars, srvin, opped, syncVars, hist>>

SrvListEnd ==
  /\ srvin # <<>>
  /\ Head(srvin).cmd \in {"listb", "listI"}
  /\ sn = Len(Listed(Head(srvin)))
  /\ sn' = 0
  /\ srvin' = Tail(srvin)
  /\ channels' = handle_response(channels,
                   IF Head(srvin).cmd = "listb" THEN "RPL_ENDOFBANLIST"
                   ELSE "RPL_ENDOFINVITELIST",
                   Head(srvin).room, None)
  /\ UNCHANGED <<live, pure, chanserv, csq, listenVars, csVars, opped, syncVars, hist>>

\* ------------------------------------------------- command.rs: iss_sync
\* what read_channel_config may return: one of these, or an error
Configs ==
  {[DefaultConfig EXCEPT !.founders = {"bob"}],
   [DefaultConfig EXCEPT !.founders = {"bob"}, !.ops = {"dave"}, !.global_bans = TRUE]}

Sent(k, a, m) == [k |-> k, a |-> a, m |-> m]
Msg(k) == Sent(k, None, <<>>)

\* must_be_in_channel: the room of a request made in a room, None for a PM
\* (which is told to use the command in-channel)
must_be_in_channel(target) == IF target \in Rooms THEN target ELSE None

\* iss_sync up to the Flags message: a PM is answered and the unwrap panics; a
\* request without an account tag is refused; else Flags(channel) is queued
SyncRequest(s) ==
  /\ pc[s] = "idle"
  /\ \A t \in Syncs : t < s => pc[t] # "idle"
  /\ \E target \in (IF s = 1 THEN {"#a"} ELSE Rooms) \cup {PmTarget}, account \in Requestors \cup {None} :
       /\ req' = [req EXCEPT ![s] = [target |-> target, account |-> account]]
       /\ IF must_be_in_channel(target) = None
          THEN /\ out' = [out EXCEPT ![s] = <<Msg("inchannel")>>]
               /\ pc' = [pc EXCEPT ![s] = "panic"]
               /\ UNCHANGED csq
          ELSE IF account = None
          THEN /\ out' = [out EXCEPT ![s] = <<Msg("denied")>>]
               /\ pc' = [pc EXCEPT ![s] = "rejected"]
               /\ UNCHANGED csq
          ELSE /\ csq' = Append(csq, FlagsMsg(target))
               /\ pc' = [pc EXCEPT ![s] = "waitflags"]
               /\ UNCHANGED out
  /\ UNCHANGED <<live, pure, chanserv, channels, listenVars, csVars, srvVars, opped, work, hist>>

\* one turn of the flags loop
SyncPollFlags(s) ==
  /\ pc[s] = "waitflags"
  /\ pc' = [pc EXCEPT ![s] = IF is_flags_done(channels, req[s].target) THEN "auth" ELSE @]
  /\ UNCHANGED <<live, pure, chanserv, channels, csq, listenVars, csVars, srvVars, opped, req, work, out, hist>>

\* Authorized with the founder test on the wrong field (any listed account)
AuthorizedListed(s) ==
  \/ req[s].account \in Owners
  \/ /\ req[s].target \in DOMAIN channels
     /\ req[s].account \in DOMAIN channels[req[s].target].current

\* is_trusted(Owner) || is_founder_on
Authorized(s) ==
  \/ req[s].account \in Owners
  \/ is_founder_on(channels, req[s].target, req[s].account)

\* lib.rs is_opped_in
is_opped_in(channel) == channel \in opped

\* the two list queries: MODE +b and MODE +I
ListQueries(channel) == <<[cmd |-> "listb", room |-> channel], [cmd |-> "listI", room |-> channel]>>

\* SyncAuthorize whose refusal does not return: the notice is sent and the sync
\* goes on as if permitted
SyncAuthorizeNoReturn(s) ==
  /\ pc[s] = "auth"
  /\ LET said == IF ~Authorized(s) THEN <<Msg("denied")>> ELSE <<>>
     IN IF is_opped_in(req[s].target)
        THEN /\ out' = [out EXCEPT ![s] = @ \o said
                                           \o <<Msg("syncing"), Msg("listb"), Msg("listI")>>]
             /\ srvin' = srvin \o ListQueries(req[s].target)
             /\ pc' = [pc EXCEPT ![s] = "waitdone"]
             /\ UNCHANGED opreq
        ELSE /\ out' = [out EXCEPT ![s] = @ \o said \o <<Msg("syncing"), Msg("op")>>]
             /\ opreq' = opreq \cup {req[s].target}
             /\ pc' = [pc EXCEPT ![s] = "poll1"]
             /\ UNCHANGED srvin
  /\ UNCHANGED <<live, pure, chanserv, channels, csq, listenVars, csin, csrep, sn, opped, req,
                 work, hist>>

\* the permission check: refused; or "Syncing ..." is announced and wait_for_op
\* entered: opped already, the list queries go out and the task is spawned; else
\* "op <channel>" goes to ChanServ
SyncAuthorize(s) ==
  /\ pc[s] = "auth"
  /\ IF ~Authorized(s)
     THEN /\ out' = [out EXCEPT ![s] = Append(@, Msg("denied"))]
          /\ pc' = [pc EXCEPT ![s] = "rejected"]
          /\ UNCHANGED <<opreq, srvin>>
     ELSE IF is_opped_in(req[s].target)
     THEN /\ out' = [out EXCEPT ![s] = @ \o <<Msg("syncing"), Msg("listb"), Msg("listI")>>]
          /\ srvin' = srvin \o ListQueries(req[s].target)
          /\ pc' = [pc EXCEPT ![s] = "waitdone"]
          /\ UNCHANGED opreq
     ELSE /\ out' = [out EXCEPT ![s] = @ \o <<Msg("syncing"), Msg("op")>>]
          /\ opreq' = opreq \cup {req[s].target}
          /\ pc' = [pc EXCEPT ![s] = "poll1"]
          /\ UNCHANGED srvin
  /\ UNCHANGED <<live, pure, chanserv, channels, csq, listenVars, csin, csrep, sn, opped, req,
                 work, hist>>

\* WaitForOpPoll with the request inside the loop: every turn that finds the
\* bot not opped asks ChanServ again
WaitForOpPollAsk(s) ==
  /\ pc[s] \in {"poll1", "poll2"}
  /\ IF ~is_opped_in(req[s].target)
     THEN /\ out' = [out EXCEPT ![s] = Append(@, Msg("op"))]
          /\ UNCHANGED <<pc, srvin>>
     ELSE IF pc[s] = "poll1"
     THEN /\ out' = [out EXCEPT ![s] = @ \o <<Msg("listb"), Msg("listI")>>]
          /\ srvin' = srvin \o ListQueries(req[s].target)
          /\ pc' = [pc EXCEPT ![s] = "waitdone"]
     ELSE /\ pc' = [pc EXCEPT ![s] = "apply"]
          /\ UNCHANGED <<out, srvin>>
  /\ UNCHANGED <<live, pure, chanserv, channels, csq, listenVars, csVars, sn, opped, req, work, hist>>

\* one turn of _wait_for_op's loop; opped, iss_sync goes on to the list queries
\* (poll1) and sync_channel to its commands (poll2)
WaitForOpPoll(s) ==
  /\ pc[s] \in {"poll1", "poll2"}
  /\ IF ~is_opped_in(req[s].target)
     THEN UNCHANGED <<pc, out, srvin>>
     ELSE IF pc[s] = "poll1"
     THEN /\ out' = [out EXCEPT ![s] = @ \o <<Msg("listb"), Msg("listI")>>]
          /\ srvin' = srvin \o ListQueries(req[s].target)
          /\ pc' = [pc EXCEPT ![s] = "waitdone"]
     ELSE /\ pc' = [pc EXCEPT ![s] = "apply"]
          /\ UNCHANGED <<out, srvin>>
  /\ UNCHANGED <<live, pure, chanserv, channels, csq, listenVars, csVars, sn, opped, req, work, hist>>

\* WaitForOpTimeout whose caller ignores the false it returns
WaitForOpTimeoutIgnored(s) ==
  /\ pc[s] \in {"poll1", "poll2"}
  /\ IF pc[s] = "poll1"
     THEN /\ out' = [out EXCEPT ![s] = @ \o <<Sent("operr", req[s].target, <<>>),
                                               Msg("listb"), Msg("listI")>>]
          /\ srvin' = srvin \o ListQueries(req[s].target)
          /\ pc' = [pc EXCEPT ![s] = "waitdone"]
     ELSE /\ out' = [out EXCEPT ![s] = Append(@, Sent("operr", req[s].target, <<>>))]
          /\ pc' = [pc EXCEPT ![s] = "apply"]
          /\ UNCHANGED srvin
  /\ UNCHANGED <<live, pure, chanserv, channels, csq, listenVars, csVars, sn, opped, req, work, hist>>

\* wait_for_op: the 5 s bound passes inside the loop and the error, which names
\* the channel, is reported; iss_sync returns, sync_channel's Err is unwrapped
\* by the task
WaitForOpTimeout(s) ==
  /\ pc[s] \in {"poll1", "poll2"}
  /\ out' = [out EXCEPT ![s] = Append(@, Sent("operr", req[s].target, <<>>))]
  /\ pc' = [pc EXCEPT ![s] = IF pc[s] = "poll1" THEN "failed" ELSE "panic"]
  /\ UNCHANGED <<live, pure, chanserv, channels, csq, listenVars, csVars, srvVars, opped, req, work, hist>>

\* one turn of the spawned task's loop
SyncPollDone(s) ==
  /\ pc[s] = "waitdone"
  /\ pc' = [pc EXCEPT ![s] = IF is_channel_done(channels, req[s].target) THEN "remove" ELSE @]
  /\ UNCHANGED <<live, pure, chanserv, channels, csq, listenVars, csVars, srvVars, opped, req, work, out, hist>>

\* SyncChannel that waits for op when there is any command, not only a mode
\* command
SyncChannelOpForAny(s, managed_channel) ==
  \/ /\ out' = [out EXCEPT ![s] = Append(@, Msg("cfgerr"))]
     /\ pc' = [pc EXCEPT ![s] = "panic"]
     /\ UNCHANGED <<work, opreq, opped>>
  \/ \E cfg \in Configs :
       LET flag_cmds == fix_flags(managed_channel, cfg)
           mode_cmds == fix_modes(managed_channel, cfg)
       IN IF flag_cmds = {} /\ mode_cmds = <<>>
          THEN /\ out' = [out EXCEPT ![s] = @ \o <<Msg("noupdates"), Msg("deop")>>]
               /\ opped' = opped \ {req[s].target}
               /\ pc' = [pc EXCEPT ![s] = "done"]
               /\ UNCHANGED <<work, opreq>>
          ELSE /\ work' = [work EXCEPT ![s] = [flag_cmds |-> flag_cmds,
                                               mode_cmds |-> mode_cmds]]
               /\ IF ~is_opped_in(req[s].target)
                  THEN /\ out' = [out EXCEPT ![s] = Append(@, Msg("op"))]
                       /\ opreq' = opreq \cup {req[s].target}
                       /\ pc' = [pc EXCEPT ![s] = "poll2"]
                  ELSE /\ pc' = [pc EXCEPT ![s] = "apply"]
                       /\ UNCHANGED <<out, opreq>>
               /\ UNCHANGED opped

\* SyncChannel that reports "No updates" when either list is empty
SyncChannelEitherEmpty(s, managed_channel) ==
  \/ /\ out' = [out EXCEPT ![s] = Append(@, Msg("cfgerr"))]
     /\ pc' = [pc EXCEPT ![s] = "panic"]
     /\ UNCHANGED <<work, opreq, opped>>
  \/ \E cfg \in Configs :
       LET flag_cmds == fix_flags(managed_channel, cfg)
           mode_cmds == fix_modes(managed_channel, cfg)
       IN IF flag_cmds = {} \/ mode_cmds = <<>>
          THEN /\ out' = [out EXCEPT ![s] = @ \o <<Msg("noupdates"), Msg("deop")>>]
               /\ opped' = opped \ {req[s].target}
               /\ pc' = [pc EXCEPT ![s] = "done"]
               /\ UNCHANGED <<work, opreq>>
          ELSE /\ work' = [work EXCEPT ![s] = [flag_cmds |-> flag_cmds,
                                               mode_cmds |-> mode_cmds]]
               /\ IF mode_cmds # <<>> /\ ~is_opped_in(req[s].target)
                  THEN /\ out' = [out EXCEPT ![s] = Append(@, Msg("op"))]
                       /\ opreq' = opreq \cup {req[s].target}
                       /\ pc' = [pc EXCEPT ![s] = "poll2"]
                  ELSE /\ pc' = [pc EXCEPT ![s] = "apply"]
                       /\ UNCHANGED <<out, opreq>>
               /\ UNCHANGED opped

\* SyncChannel that reports a configuration it cannot read and goes on with
\* the default one
SyncChannelDefaultOnError(s, managed_channel) ==
  \E cfg \in Configs \cup {DefaultConfig} :
    LET flag_cmds == fix_flags(managed_channel, cfg)
        mode_cmds == fix_modes(managed_channel, cfg)
        said == IF cfg = DefaultConfig THEN <<Msg("cfgerr")>> ELSE <<>>
    IN IF flag_cmds = {} /\ mode_cmds = <<>>
       THEN /\ out' = [out EXCEPT ![s] = @ \o said \o <<Msg("noupdates"), Msg("deop")>>]
            /\ opped' = opped \ {req[s].target}
            /\ pc' = [pc EXCEPT ![s] = "done"]
            /\ UNCHANGED <<work, opreq>>
       ELSE /\ work' = [work EXCEPT ![s] = [flag_cmds |-> flag_cmds,
                                            mode_cmds |-> mode_cmds]]
            /\ IF mode_cmds # <<>> /\ ~is_opped_in(req[s].target)
               THEN /\ out' = [out EXCEPT ![s] = @ \o said \o <<Msg("op")>>]
                    /\ opreq' = opreq \cup {req[s].target}
                    /\ pc' = [pc EXCEPT ![s] = "poll2"]
               ELSE /\ out' = [out EXCEPT ![s] = @ \o said]
                    /\ pc' = [pc EXCEPT ![s] = "apply"]
                    /\ UNCHANGED opreq
            /\ UNCHANGED opped

\* sync_channel up to its loops, for the accumulator the task removed: the
\* configuration is read and the diff made
SyncChannel(s, managed_channel) ==
  \/ \* read_channel_config fails: reported, and the Err is unwrapped
     /\ out' = [out EXCEPT ![s] = Append(@, Msg("cfgerr"))]
     /\ pc' = [pc EXCEPT ![s] = "panic"]
     /\ UNCHANGED <<work, opreq, opped>>
  \/ \E cfg \in Configs :
       LET flag_cmds == fix_flags(managed_channel, cfg)
           mode_cmds == fix_modes(managed_channel, cfg)
       IN IF flag_cmds = {} /\ mode_cmds = <<>>
          THEN \* "No updates": Ok, and the task de-ops the bot
               /\ out' = [out EXCEPT ![s] = @ \o <<Msg("noupdates"), Msg("deop")>>]
               /\ opped' = opped \ {req[s].target}
               /\ pc' = [pc EXCEPT ![s] = "done"]
               /\ UNCHANGED <<work, opreq>>
          ELSE /\ work' = [work EXCEPT ![s] = [flag_cmds |-> flag_cmds,
                                               mode_cmds |-> mode_cmds]]
               /\ IF mode_cmds # <<>> /\ ~is_opped_in(req[s].target)
                  THEN /\ out' = [out EXCEPT ![s] = Append(@, Msg("op"))]
                       /\ opreq' = opreq \cup {req[s].target}
                       /\ pc' = [pc EXCEPT ![s] = "poll2"]
                  ELSE /\ pc' = [pc EXCEPT ![s] = "apply"]
                       /\ UNCHANGED <<out, opreq>>
               /\ UNCHANGED opped

\* w.channels.remove(&channel).unwrap(), then sync_channel(...).await.unwrap()
SyncRemove(s) ==
  /\ pc[s] = "remove"
  /\ IF req[s].target \in DOMAIN channels
     THEN /\ channels' = MapRemove(channels, req[s].target)
          /\ SyncChannel(s, channels[req[s].target])
     ELSE /\ pc' = [pc EXCEPT ![s] = "panic"]
          /\ UNCHANGED <<channels, work, out, opreq, opped>>
  /\ UNCHANGED <<live, pure, chanserv, csq, listenVars, csin, csrep, srvVars, req, hist>>

\* the orders in which a loop over a HashMap may visit its entries
RECURSIVE Orders(_)
Orders(S) ==
  IF S = {} THEN {<<>>}
  ELSE UNION {{<<c>> \o rest : rest \in Orders(S \ {c})} : c \in S}

\* FlagLoop with the confirmations after the last command
FlagLoopBatched(cmds) ==
  [i \in 1..Len(cmds) |-> Sent("flag", cmds[i][1], cmds[i][2])]
  \o [i \in 1..Len(cmds) |-> Sent("flagok", cmds[i][1], cmds[i][2])]

\* the flag loop: per command "flags <channel> <account> <flags>" to ChanServ,
\* then "Set /cs flags ..." to the room
RECURSIVE FlagLoop(_)
FlagLoop(cmds) ==
  IF cmds = <<>> THEN <<>>
  ELSE <<Sent("flag", Head(cmds)[1], Head(cmds)[2]),
         Sent("flagok", Head(cmds)[1], Head(cmds)[2])>> \o FlagLoop(Tail(cmds))

\* the mode loop: per command send_mode, then "Set /mode ..." to the room
RECURSIVE ModeLoop(_)
ModeLoop(cmds) ==
  IF cmds = <<>> THEN <<>>
  ELSE <<Sent("mode", None, Head(cmds)), Sent("modeok", None, Head(cmds))>>
       \o ModeLoop(Tail(cmds))

\* ChanServ acknowledges each flags change by one notice
Acks(cmds) == [i \in 1..Len(cmds) |-> NoticeMsg("other", None, <<>>, None)]

\* SyncApply that de-ops only when this sync asked for op itself
SyncApplyDeopIfAsked(s) ==
  /\ pc[s] = "apply"
  /\ LET asked == \E i \in DOMAIN out[s] : out[s][i].k = "op"
     IN /\ \E cmds \in Orders(work[s].flag_cmds) :
             /\ out' = [out EXCEPT ![s] = @ \o FlagLoop(cmds) \o ModeLoop(work[s].mode_cmds)
                                            \o (IF asked THEN <<Msg("deop")>> ELSE <<>>)]
             /\ csq' = csq \o Acks(cmds)
        /\ opped' = IF asked THEN opped \ {req[s].target} ELSE opped
  /\ work' = [work EXCEPT ![s] = NoWork]
  /\ pc' = [pc EXCEPT ![s] = "done"]
  /\ UNCHANGED <<live, pure, chanserv, channels, listenVars, csVars, srvVars, req, hist>>

\* the rest of sync_channel and of the task: the flag loop, the mode loop, Ok,
\* and the task de-ops the bot, MODE <channel> -o <own nick>
SyncApply(s) ==
  /\ pc[s] = "apply"
  /\ \E cmds \in Orders(work[s].flag_cmds) :
       /\ out' = [out EXCEPT ![s] = @ \o FlagLoop(cmds) \o ModeLoop(work[s].mode_cmds)
                                      \o <<Msg("deop")>>]
       /\ csq' = csq \o Acks(cmds)
  /\ work' = [work EXCEPT ![s] = NoWork]
  /\ opped' = opped \ {req[s].target}
  /\ pc' = [pc EXCEPT ![s] = "done"]
  /\ UNCHANGED <<live, pure, chanserv, channels, listenVars, csVars, srvVars, req, hist>>

\* the flags commands among the messages sent
FlagsSent(sent) == SelectSeq(sent, LAMBDA m : m.k = "flag")

\* SyncSendFail whose failed send is ignored: the loops and the de-op go on
SyncSendFailIgnored(s) ==
  /\ pc[s] = "apply"
  /\ \E cmds \in Orders(work[s].flag_cmds) :
       LET sends == FlagLoop(cmds) \o ModeLoop(work[s].mode_cmds)
       IN \E n \in 0..(Len(sends) - 1) :
            /\ out' = [out EXCEPT ![s] = @ \o SubSeq(sends, 1, n)
                                           \o <<Sent("senderr", sends[n + 1].a, sends[n + 1].m)>>
                                           \o SubSeq(sends, n + 2, Len(sends))
                                           \o <<Msg("deop")>>]
            /\ csq' = csq \o Acks(FlagsSent(SubSeq(sends, 1, n) \o SubSeq(sends, n + 2, Len(sends))))
  /\ work' = [work EXCEPT ![s] = NoWork]
  /\ opped' = opped \ {req[s].target}
  /\ pc' = [pc EXCEPT ![s] = "done"]
  /\ UNCHANGED <<live, pure, chanserv, channels, listenVars, csVars, srvVars, req, hist>>

\* sync_channel's loops when a send returns Err (the connection's outgoing
\* stream is closed): the sends before it went out, `?` returns the Err, and the
\* task's unwrap ends the task before the de-op
SyncSendFail(s) ==
  /\ pc[s] = "apply"
  /\ \E cmds \in Orders(work[s].flag_cmds) :
       LET sends == FlagLoop(cmds) \o ModeLoop(work[s].mode_cmds)
       IN \E n \in 0..(Len(sends) - 1) :
            /\ out' = [out EXCEPT ![s] = @ \o SubSeq(sends, 1, n)
                                           \o <<Sent("senderr", sends[n + 1].a, sends[n + 1].m)>>]
            /\ csq' = csq \o Acks(FlagsSent(SubSeq(sends, 1, n)))
  /\ work' = [work EXCEPT ![s] = NoWork]
  /\ pc' = [pc EXCEPT ![s] = "panic"]
  /\ UNCHANGED <<live, pure, chanserv, channels, listenVars, csVars, srvVars, opped, req, hist>>

\* ChanServ sends a notice that answers no query
CsUnsolicited ==
  /\ Len(csq) < MaxQueue
  /\ \E n \in {NoticeMsg("rule", None, <<>>, None), NoticeMsg("header", None, <<>>, None),
               NoticeMsg("data", "bob", FLAGS_FOUNDER, None),
               NoticeMsg("end", None, <<>>, None), NoticeMsg("other", None, <<>>, None)} :
       csq' = Append(csq, n)
  /\ UNCHANGED <<live, pure, chanserv, channels, listenVars, csVars, srvVars, opped, syncVars,
                 hist>>

\* --------------------------------------------------------- specification
Listen == ListenRecvFlags \/ ListenPoll \/ ListenNotice

ChanServ == CsLine \/ CsEnd \/ CsOp

Server == SrvListEntry \/ SrvListEnd

Sync(s) ==
  \/ SyncRequest(s) \/ SyncPollFlags(s) \/ SyncAuthorize(s)
  \/ WaitForOpPoll(s) \/ WaitForOpTimeout(s)
  \/ SyncPollDone(s) \/ SyncRemove(s)
  \/ SyncApply(s)

Next == Listen \/ ChanServ \/ Server \/ \E s \in Syncs : Sync(s)

Spec == Init /\ [][Next]_vars

\* the listener task runs, and ChanServ answers what it is asked
FairSpec == Spec /\ WF_vars(Listen) /\ WF_vars(ChanServ)

\* the listener with its requests, next to a ChanServ that also sends notices
\* nobody asked for
NextListen ==
  \/ Listen
  \/ CsLine \/ CsEnd \/ CsUnsolicited
  \/ \E s \in Syncs : SyncRequest(s) \/ SyncPollFlags(s)

SpecListen == Init /\ [][NextListen]_vars

\* one sync, with sends that may fail while its commands are applied
NextSend ==
  \/ ListenRecvFlags \/ ListenNotice
  \/ ChanServ \/ Server
  \/ Sync(1) \/ SyncSendFail(1)

SpecSend == Init /\ [][NextSend]_vars

\* ---------------------------------------- channel.rs: the diff on its own
\* the accounts a configuration lists, the accounts that hold letters, and the
\* letter sets they hold: two tiers, the single letter, and letters of no tier
ListedAccounts == {"foo", "bar", LITHARGE}
HeldAccounts == {"foo", LITHARGE, WMOPBOT}
HeldLetters == {FOUNDER, OP, PLUS_O, {"F", "s"}}
Tiers == {"founders", "crats", "ops", "plus_o", "autovoice"}
\* a ban and an invite exception that the configuration knows nothing of
OTHER_BAN == "*!*@spam.example"
OTHER_INVEX == "*!*@guest.example"

\* the configuration with these (tier, account) entries and these toggles
ConfigOf(entries, global_bans, libera_staff, wmopbot, invexes) ==
  [founders |-> {e[2] : e \in {x \in entries : x[1] = "founders"}},
   crats |-> {e[2] : e \in {x \in entries : x[1] = "crats"}},
   ops |-> {e[2] : e \in {x \in entries : x[1] = "ops"}},
   plus_o |-> {e[2] : e \in {x \in entries : x[1] = "plus_o"}},
   autovoice |-> {e[2] : e \in {x \in entries : x[1] = "autovoice"}},
   global_bans |-> global_bans, libera_staff |-> libera_staff, wmopbot |-> wmopbot,
   invexes |-> invexes]

PureConfigs ==
  {ConfigOf(entries, gb, ls, wm, inv) :
     entries \in {E \in SUBSET (Tiers \X ListedAccounts) : Cardinality(E) <= MaxListed},
     gb \in BOOLEAN, ls \in BOOLEAN, wm \in BOOLEAN, inv \in {{}, {OTHER_INVEX}}}

\* the live states given to the diff: ManagedChannel { current, bans, invexes,
\* ..Default::default() }
PureChannels ==
  {[DefaultChannel EXCEPT !.current = current, !.bans = bans, !.invexes = invexes] :
     current \in UNION {[A -> HeldLetters] :
                          A \in {B \in SUBSET HeldAccounts : Cardinality(B) <= MaxHeld}},
     bans \in SUBSET {GLOBAL_BANS, OTHER_BAN},
     invexes \in {{}, {OTHER_INVEX}}}

\* the accumulators that report lines are ingested into: the default one, as
\* in test_add_chanserv_flags_line, or one with a ban recorded and the ban list
\* ended
IngestChannels ==
  {DefaultChannel, [DefaultChannel EXCEPT !.bans = {OTHER_BAN}, !.bans_done = TRUE]}

\* the lines ingested: the record pattern matches and captures an account and
\* its letters, or it does not match
PureLines ==
  {NoticeMsg("data", account, letters, None) :
     account \in {"foo", "bar"},
     letters \in {FLAGS_FOUNDER, <<"A", "i", "o", "t", "v">>, <<"V", "v">>}}
  \cup {NoticeMsg("other", None, <<>>, None)}

\* the program is not started; the diff is given a live state and a
\* configuration, or an accumulator is given report lines
InitDiff ==
  /\ chanserv = None
  /\ channels = <<>>
  /\ csq = <<>>
  /\ lpc = "recv"
  /\ lchan = None
  /\ csin = <<>>
  /\ csrep = NoReport
  /\ opreq = {}
  /\ srvin = <<>>
  /\ sn = 0
  /\ opped = {}
  /\ pc = [s \in Syncs |-> "idle"]
  /\ req = [s \in Syncs |-> [target |-> None, account |-> None]]
  /\ work = [s \in Syncs |-> NoWork]
  /\ out = [s \in Syncs |-> <<>>]
  /\ live = [flags |-> <<<<"bob", FLAGS_FOUNDER>>>>, bans |-> <<>>, invexes |-> <<>>]
  /\ hist = [did |-> None, looking |-> None, kind |-> None, from |-> None]
  /\ \/ \E managed \in PureChannels, cfg \in PureConfigs :
          pure = [NoPure EXCEPT !.phase = "input", !.managed = managed, !.cfg = cfg]
     \/ \E managed \in IngestChannels :
          pure = [NoPure EXCEPT !.phase = "ingest", !.managed = managed]

programVars ==
  <<chanserv, channels, csq, lpc, lchan, csin, csrep, opreq, srvin, sn, opped, pc, req,
    work, out, live, hist>>

\* managed.fix_flags(&cfg) and managed.fix_modes(&cfg), as sync_channel calls
\* them
DiffRun ==
  /\ pure.phase \in {"input", "applied"}
  /\ pure' = [pure EXCEPT !.flag_cmds = fix_flags(pure.managed, pure.cfg),
                          !.mode_cmds = fix_modes(pure.managed, pure.cfg),
                          !.phase = IF pure.phase = "input" THEN "diffed" ELSE "rediffed"]
  /\ UNCHANGED programVars

\* what ChanServ makes of "flags <channel> <account> <mode>": after a "-" the
\* letters are taken from the account, after a "+" given to it
RECURSIVE ApplyMode(_, _, _)
ApplyMode(letters, mode, sign) ==
  IF mode = <<>> THEN letters
  ELSE IF Head(mode) \in {"+", "-"} THEN ApplyMode(letters, Tail(mode), Head(mode))
  ELSE IF sign = "-" THEN ApplyMode(letters \ {Head(mode)}, Tail(mode), sign)
  ELSE ApplyMode(letters \cup {Head(mode)}, Tail(mode), sign)

\* the access list after the flags commands: an account left without letters
\* leaves the list
ApplyFlags(current, flag_cmds) ==
  LET changed == {c[1] : c \in flag_cmds}
      after(a) == IF a \in changed
                  THEN ApplyMode(IF a \in DOMAIN current THEN current[a] ELSE {},
                                 (CHOOSE c \in flag_cmds : c[1] = a)[2], "+")
                  ELSE current[a]
  IN [a \in {b \in DOMAIN current \cup changed : after(b) # {}} |-> after(a)]

\* the ban list after the mode commands
RECURSIVE ApplyBans(_, _)
ApplyBans(bans, mode_cmds) ==
  IF mode_cmds = <<>> THEN bans
  ELSE ApplyBans(IF Head(mode_cmds)[1] = "+b" THEN bans \cup {Head(mode_cmds)[2]}
                 ELSE bans \ {Head(mode_cmds)[2]},
                 Tail(mode_cmds))

\* the commands of the diff are carried out on the network, as sync_channel
\* sends them
DiffApply ==
  /\ pure.phase = "diffed"
  /\ pure' = [pure EXCEPT !.managed.current = ApplyFlags(@, pure.flag_cmds),
                          !.managed.bans = ApplyBans(@, pure.mode_cmds),
                          !.sent = Cardinality(pure.flag_cmds) + Len(pure.mode_cmds),
                          !.phase = "applied"]
  /\ UNCHANGED programVars

\* managed.add_flags_from_chanserv(&line), its Err dropped as listen() drops it
DiffIngest ==
  /\ pure.phase = "ingest"
  /\ \E line \in PureLines :
       pure' = [pure EXCEPT !.managed = add_flags_from_chanserv(@, line), !.line = line]
  /\ UNCHANGED programVars

NextDiff == DiffRun \/ DiffApply \/ DiffIngest

SpecDiff == InitDiff /\ [][NextDiff]_vars

\* ------------------------------------ channel.rs: two runs of the diff
\* the hasher seeds of a run: a HashSet or HashMap is iterated in an order that
\* the seed fixes and that differs from run to run
Seeds == {"s1", "s2", "s3"}

\* the place of a letter in the iteration of a HashSet<char> under a seed
LetterRank(seed) ==
  [c \in DOMAIN CodePoint |->
     CASE seed = "s1" -> CodePoint[c]
       [] seed = "s2" -> 200 - CodePoint[c]
       [] OTHER -> (CodePoint[c] % 5) * 1000 + CodePoint[c]]

\* the place of an account in the iteration of the `changes` map under a seed
NameRank(seed) ==
  LET code == [n \in {"bar", "foo", LITHARGE, WMOPBOT, LIBERA_STAFF} |->
                 CASE n = "bar" -> 1 [] n = "foo" -> 2 [] n = LITHARGE -> 3
                   [] n = WMOPBOT -> 4 [] OTHER -> 5]
  IN [n \in DOMAIN code |->
        CASE seed = "s1" -> code[n]
          [] seed = "s2" -> 10 - code[n]
          [] OTHER -> (code[n] % 2) * 10 + code[n]]

\* .iter() / .cloned().collect(): the elements in the order of their ranks
RECURSIVE Collect(_, _)
Collect(S, rank) ==
  IF S = {} THEN <<>>
  ELSE LET m == CHOOSE x \in S : \A y \in S : rank[x] <= rank[y]
       IN <<m>> \o Collect(S \ {m}, rank)

RECURSIVE InsertChar(_, _)
InsertChar(c, v) ==
  IF v = <<>> THEN <<c>>
  ELSE IF CodePoint[c] <= CodePoint[Head(v)] THEN <<c>> \o v
  ELSE <<Head(v)>> \o InsertChar(c, Tail(v))

\* sort_unstable that leaves the vector as it was collected
sort_unstableNone(v) == v

\* Vec<char>::sort_unstable: ascending code point
RECURSIVE sort_unstable(_)
sort_unstable(v) ==
  IF v = <<>> THEN <<>> ELSE InsertChar(Head(v), sort_unstable(Tail(v)))

\* FlagChange::to_mode in a run: the two differences are collected in the
\* run's iteration order and sorted
to_mode_run(change, seed) ==
  IF change.current = change.should THEN NoMode
  ELSE LET remove == sort_unstable(Collect(change.current \ change.should, LetterRank(seed)))
           add == sort_unstable(Collect(change.should \ change.current, LetterRank(seed)))
       IN SomeMode((IF remove # <<>> THEN <<"-">> \o remove ELSE <<>>)
                   \o (IF add # <<>> THEN <<"+">> \o add ELSE <<>>))

\* filter_map over the names in the order given
RECURSIVE FilterMap(_, _, _, _)
FilterMap(names, m, cfg, seed) ==
  IF names = <<>> THEN <<>>
  ELSE LET name == Head(names)
           mode == to_mode_run(
                     [current |-> IF name \in DOMAIN m.current THEN m.current[name] ELSE {},
                      should |-> Should(cfg, name)], seed)
       IN (IF mode.some THEN <<<<name, mode.mode>>>> ELSE <<>>)
          \o FilterMap(Tail(names), m, cfg, seed)

\* ManagedChannel::fix_flags in a run: the Vec, in the order changes.iter()
\* visits the accounts
fix_flags_run(m, cfg, seed) ==
  FilterMap(Collect(ChangeNames(m, cfg), NameRank(seed)), m, cfg, seed)

\* what a run of the diff returns
Outcome(m, cfg, seed) ==
  [flags |-> fix_flags_run(m, cfg, seed), modes |-> fix_modes(m, cfg), seed |-> seed]

NoRun == [flags |-> <<>>, modes |-> <<>>, seed |-> None]

\* the inputs of the two runs: live states of the diff on its own with no ban
\* and no invite exception, and its configurations without invite exceptions
\* and without the op bot's grant
RunChannels == {m \in PureChannels : m.invexes = {} /\ m.bans = {}}
RunConfigs == {cfg \in PureConfigs : cfg.invexes = {} /\ ~cfg.wmopbot}

RunState(phase, managed, cfg, first, second) ==
  [phase |-> phase, managed |-> managed, cfg |-> cfg, flag_cmds |-> {},
   mode_cmds |-> <<>>, sent |-> 0, line |-> NoPure.line,
   first |-> first, second |-> second]

InitRuns ==
  /\ chanserv = None
  /\ channels = <<>>
  /\ csq = <<>>
  /\ lpc = "recv"
  /\ lchan = None
  /\ csin = <<>>
  /\ csrep = NoReport
  /\ opreq = {}
  /\ srvin = <<>>
  /\ sn = 0
  /\ opped = {}
  /\ pc = [s \in Syncs |-> "idle"]
  /\ req = [s \in Syncs |-> [target |-> None, account |-> None]]
  /\ work = [s \in Syncs |-> NoWork]
  /\ out = [s \in Syncs |-> <<>>]
  /\ live = [flags |-> <<<<"bob", FLAGS_FOUNDER>>>>, bans |-> <<>>, invexes |-> <<>>]
  /\ hist = [did |-> None, looking |-> None, kind |-> None, from |-> None]
  /\ \E managed \in RunChannels, cfg \in RunConfigs :
       pure = RunState("input", managed, cfg, NoRun, NoRun)

\* managed.fix_flags(&cfg) and managed.fix_modes(&cfg), run once
RunFirst ==
  /\ pure.phase = "input"
  /\ \E seed \in Seeds :
       pure' = RunState("once", pure.managed, pure.cfg,
                        Outcome(pure.managed, pure.cfg, seed), NoRun)
  /\ UNCHANGED programVars

\* and run again on the same inputs
RunSecond ==
  /\ pure.phase = "once"
  /\ \E seed \in Seeds :
       pure' = RunState("twice", pure.managed, pure.cfg, pure.first,
                        Outcome(pure.managed, pure.cfg, seed))
  /\ UNCHANGED programVars

NextRuns == RunFirst \/ RunSecond

SpecRuns == InitRuns /\ [][NextRuns]_vars

\* ------------------------------------------- main.rs: handle_response alone
\* the accumulators a reply may find: the default one or one whose letters are
\* read, with or without a ban and the end of the ban list; the replies
\* themselves make the others
RespAccumulators ==
  {[a EXCEPT !.bans = b, !.bans_done = d] :
     a \in {DefaultChannel,
            [DefaultChannel EXCEPT
               !.current = MapInsert(<<>>, "bob", parse_flags(FLAGS_FOUNDER)),
               !.flags_done = TRUE]},
     b \in SUBSET {GLOBAL_BANS}, d \in BOOLEAN}

RespChannels == UNION {[rs -> RespAccumulators] : rs \in SUBSET Rooms}

\* the replies the processor hands to handle_response: the four it acts on and
\* one it ignores
Responses ==
  {"RPL_BANLIST", "RPL_ENDOFBANLIST", "RPL_INVITELIST", "RPL_ENDOFINVITELIST",
   "RPL_ENDOFNAMES"}

\* data[2] of a list reply
RespMasks == {GLOBAL_BANS, OTHER_INVEX}

InitResp ==
  /\ pure = NoPure
  /\ chanserv \in {None, "#b"}
  /\ channels \in RespChannels
  /\ csq = <<>>
  /\ lpc = "recv"
  /\ lchan = None
  /\ csin = <<>>
  /\ csrep = NoReport
  /\ opreq = {}
  /\ srvin = <<>>
  /\ sn = 0
  /\ opped = {}
  /\ pc = [s \in Syncs |-> "idle"]
  /\ req = [s \in Syncs |-> [target |-> None, account |-> None]]
  /\ work = [s \in Syncs |-> NoWork]
  /\ out = [s \in Syncs |-> <<>>]
  /\ live = [flags |-> <<<<"bob", FLAGS_FOUNDER>>>>, bans |-> <<>>, invexes |-> <<>>]
  /\ hist = [did |-> None, looking |-> None, kind |-> None, from |-> None]

\* the processor receives Command::Response(resp, data) and calls
\* handle_response; hist keeps the reply: its kind, data[1] and, for a list
\* entry, data[2]
Respond ==
  \E resp \in Responses, room \in Rooms :
  \E entry \in (IF resp \in {"RPL_BANLIST", "RPL_INVITELIST"} THEN RespMasks ELSE {None}) :
    /\ channels' = handle_response(channels, resp, room, entry)
    /\ hist' = [did |-> "resp", looking |-> room, kind |-> resp, from |-> entry]
    /\ UNCHANGED <<live, pure, chanserv, csq, listenVars, csVars, srvVars, opped, syncVars>>

NextResp == Respond

SpecResp == InitResp /\ [][NextResp]_vars

\* ------------------------------------------------------------ properties
\* the flags queries whose "End of" line the listener has not handled yet:
\* those ChanServ has not answered to the end, and the "End of" lines queued
OutstandingQueries ==
  Len(csin) + Cardinality({i \in DOMAIN csq : csq[i].kind = "end"})

\* C1: at most one flags query is outstanding; the slot is set to a room, and
\* the query for it sent, only in a step that starts with the slot empty, so a
\* slot that names a room is never overwritten by another room
C1_OneQueryOutstanding ==
  /\ [](OutstandingQueries <= 1)
  /\ [][/\ (chanserv' # chanserv /\ chanserv' # None) => chanserv = None
        /\ Len(csin') > Len(csin) =>
             /\ chanserv = None
             /\ csin' = Append(csin, chanserv')]_vars

\* a second query went out, for "#b", after the report on "#a" was read to its end
C1_SecondQuerySent ==
  /\ chanserv = "#b"
  /\ csin = <<"#b">>
  /\ is_flags_done(channels, "#a")

\* C2: no data line and no "End of" line of the report that answers the query
\* for one room is recorded for another room
C2_NoLineForWrongRoom ==
  (hist.did = "take" /\ hist.kind \in {"data", "end"}) => hist.looking = hist.from

\* two requests for different rooms were queued together, and both reports
\* have been recorded, each in its room's accumulator
C2_BothReportsRecorded ==
  /\ req[1].target = "#a" /\ req[2].target = "#b"
  /\ \A r \in Rooms :
       /\ is_flags_done(channels, r)
       /\ DOMAIN channels[r].current = {live.flags[i][1] : i \in DOMAIN live.flags}
  /\ pc[1] = "waitflags" /\ pc[2] = "waitflags"

\* C3: a request for room B that finds the slot taken by another room A is
\* only delayed: the slot comes to name B and the query for B is sent
C3_DelayedNotBlocked ==
  \A b \in Rooms :
    (lpc = "poll" /\ lchan = b /\ chanserv \notin {None, b})
      ~> (lpc = "recv" /\ chanserv = b /\ b \in SeqToSet(csin))

\* the listener takes a notice from its queue
NoticeStep ==
  /\ lpc = "recv"
  /\ csq # <<>>
  /\ Head(csq).type = "Notice"
  /\ csq' = Tail(csq)

\* C4: an "End of" line handled while the slot names a room sets that room's
\* flags_done and frees the slot; flags_done of a room is set by no other step,
\* and only while the slot names that room
C4_TerminatorSetsFlagsDone ==
  [][/\ (NoticeStep /\ Head(csq).kind = "end" /\ chanserv # None) =>
          /\ is_flags_done(channels', chanserv)
          /\ chanserv' = None
     /\ \A r \in Rooms :
          (is_flags_done(channels', r) /\ ~is_flags_done(channels, r)) =>
            /\ NoticeStep /\ Head(csq).kind = "end"
            /\ chanserv = r]_vars

\* C5: a data line, a malformed line or an "End of" line handled while the slot
\* is empty changes neither the accumulator map nor the slot; a header line or
\* a dashed rule changes nothing but the queue it is taken from, whatever the
\* slot
C5_IdleLinesDiscarded ==
  [][NoticeStep =>
       /\ chanserv = None => UNCHANGED <<chanserv, channels, lpc, lchan>>
       /\ Head(csq).kind \in {"rule", "header"} =>
            UNCHANGED <<chanserv, channels, lpc, lchan, csVars, srvVars, opped, syncVars,
                        live>>]_vars

\* an "End of" line was dropped with the slot empty and no accumulator in the
\* map
C5_TerminatorDropped ==
  /\ hist = [did |-> "drop", looking |-> None, kind |-> "end", from |-> None]
  /\ channels = <<>>
  /\ lpc = "recv"

\* C6: is_done is the conjunction of the three completion flags, and a flag
\* that is set is not reset while the accumulator stays in the map
C6_IsDoneIsConjunction ==
  /\ [](\A r \in DOMAIN channels :
          is_channel_done(channels, r)
            = (channels[r].flags_done /\ channels[r].bans_done /\ channels[r].invexes_done))
  /\ [][\A r \in DOMAIN channels \cap DOMAIN channels' :
          /\ channels[r].flags_done => channels'[r].flags_done
          /\ channels[r].bans_done => channels'[r].bans_done
          /\ channels[r].invexes_done => channels'[r].invexes_done]_vars

\* an accumulator has its three flags set while its sync waits for them
C6_AllThreeDone ==
  \E s \in Syncs : pc[s] = "waitdone" /\ is_channel_done(channels, req[s].target)

\* C7: a sync removes the room's accumulator only in a state where the
\* accumulator is in the map and is_done
C7_RemovesOnlyWhenDone ==
  [][\A s \in Syncs :
       (pc[s] = "remove" /\ pc'[s] # "remove") =>
         /\ req[s].target \in DOMAIN channels
         /\ is_done(channels[req[s].target])]_vars

\* a sync has gone past the permission check: something other than a refusal
\* was sent for it
Passed(s) == \E i \in DOMAIN out[s] : out[s][i].k \notin {"denied", "inchannel"}

\* the account has the founder letters in the room's access list
LiveFounder(account) ==
  \E i \in DOMAIN live.flags : live.flags[i] = <<account, FLAGS_FOUNDER>>

PassedOnlyIfAllowed(s) ==
  Passed(s) =>
    /\ req[s].target \in Rooms
    /\ req[s].account \in Owners \/ LiveFounder(req[s].account)

\* C8 as stated: a sync passes the permission check only if asked for in a room
\* by an owner or a founder; every other request gets the permission notice
\* and nothing else
C8_OthersGetPermissionNotice ==
  \A s \in Syncs :
    /\ PassedOnlyIfAllowed(s)
    /\ (pc[s] # "idle" /\ ~Passed(s) /\ pc[s] \notin {"waitflags", "auth"}) =>
         out[s] = <<Msg("denied")>>

\* C8, amended: a sync passes the permission check only if asked for in a room
\* by an owner or a founder; a request made in a private message gets the
\* in-channel notice and nothing else, every other refused request gets the
\* permission notice and nothing else
C8_RefusedGetOneNotice ==
  \A s \in Syncs :
    /\ PassedOnlyIfAllowed(s)
    /\ (pc[s] # "idle" /\ ~Passed(s) /\ pc[s] \notin {"waitflags", "auth"}) =>
         IF req[s].target \in Rooms
         THEN pc[s] = "rejected" /\ out[s] = <<Msg("denied")>>
         ELSE pc[s] = "panic" /\ out[s] = <<Msg("inchannel")>>

\* a founder's request passed, one from a listed non-founder or from nobody
\* known was refused
C8_FounderPassedOtherRefused ==
  /\ req[1].account = "bob" /\ Passed(1)
  /\ pc[2] = "rejected"

\* C9: after a refusal the accumulator map and the slot are what they were
\* before the request (for the first request of a run: empty), and no op
\* request, list query or command was sent for the sync
C9_RefusalLeavesNoTrace ==
  (pc[1] = "rejected" /\ pc[2] = "idle") =>
    /\ channels = <<>>
    /\ chanserv = None
    /\ ~Passed(1)

\* the commands and confirmations a sync has sent
Cmds(s) == SelectSeq(out[s], LAMBDA m : m.k \in {"flag", "flagok", "mode", "modeok"})

\* C10: in one sync every flags command comes before every mode command, each
\* command is followed at once by its own confirmation, there is one flags
\* command per account and no command is sent twice
C10_FlagsThenModes ==
  \A s \in Syncs :
    LET c == Cmds(s)
    IN /\ \A i \in DOMAIN c :
            /\ c[i].k = "flag" =>
                 i + 1 \in DOMAIN c /\ c[i + 1] = Sent("flagok", c[i].a, c[i].m)
            /\ c[i].k = "mode" =>
                 i + 1 \in DOMAIN c /\ c[i + 1] = Sent("modeok", c[i].a, c[i].m)
            /\ c[i].k \in {"flagok", "modeok"} =>
                 i - 1 \in DOMAIN c /\ c[i - 1].k = (IF c[i].k = "flagok" THEN "flag" ELSE "mode")
       /\ \A i, j \in DOMAIN c :
            /\ (i < j /\ c[i].k = "mode") => c[j].k \in {"mode", "modeok"}
            /\ (i # j /\ c[i].k = "flag" /\ c[j].k = "flag") => c[i].a # c[j].a
            /\ (i # j /\ c[i].k = "mode") => c[i] # c[j]

\* a sync sent two flags commands and a mode command
C10_TwoFlagsOneMode ==
  \E s \in Syncs :
    /\ Cardinality({i \in DOMAIN out[s] : out[s][i].k = "flag"}) = 2
    /\ Cardinality({i \in DOMAIN out[s] : out[s][i].k = "mode"}) = 1

\* C11: a wait for op that times out reports one error, which names the room,
\* and fails; nothing is sent for the sync after the error, and a sync whose
\* first wait timed out has sent no list query and no command at all
C11_TimeoutEndsSync ==
  \A s \in Syncs :
    /\ \A i \in DOMAIN out[s] :
         out[s][i].k = "operr" =>
           /\ out[s][i].a = req[s].target
           /\ i = Len(out[s])
           /\ pc[s] \in {"failed", "panic"}
    /\ pc[s] = "failed" =>
         /\ out[s][Len(out[s])].k = "operr"
         /\ \A i \in DOMAIN out[s] :
              out[s][i].k \notin {"listb", "listI", "flag", "mode", "deop"}

\* a sync's first wait timed out: the error is the last thing sent for it
C11_FirstWaitTimedOut ==
  \E s \in Syncs :
    /\ pc[s] = "failed"
    /\ out[s] = <<Msg("syncing"), Msg("op"), Sent("operr", req[s].target, <<>>)>>

\* the number of "op <room>" requests a sync has sent
OpRequests(s) == Cardinality({i \in DOMAIN out[s] : out[s][i].k = "op"})

\* C12 as stated: a sync whose diff made no mode command (it ended without
\* sending one) has not requested op
C12_OpOnlyForModeCommands ==
  \A s \in Syncs :
    (pc[s] = "done" /\ \A i \in DOMAIN out[s] : out[s][i].k # "mode") => OpRequests(s) = 0

\* C12, amended: op is requested only while the bot is not opped in the room,
\* and either right after "Syncing" is announced, before the list queries and
\* whatever the diff will be, or after the diff, and then only if the diff
\* made a mode command
C12_OpBeforeListsOrForModes ==
  [][\A s \in Syncs :
       OpRequests(s)' > OpRequests(s) =>
         /\ OpRequests(s)' = OpRequests(s) + 1
         /\ ~is_opped_in(req[s].target)
         /\ \/ /\ out'[s] = out[s] \o <<Msg("syncing"), Msg("op")>>
               /\ \A i \in DOMAIN out[s] : out[s][i].k \notin {"listb", "listI"}
            \/ /\ out'[s] = Append(out[s], Msg("op"))
               /\ \E i \in DOMAIN out[s] : out[s][i].k = "listI"
               /\ work'[s].mode_cmds # <<>>]_vars

\* a sync requested op twice: before its list queries and again after its diff
C12_OpRequestedTwice ==
  \E s \in Syncs : OpRequests(s) = 2 /\ work[s].mode_cmds # <<>>

\* "No updates" was reported for the sync
NoUpdates(s) == \E i \in DOMAIN out[s] : out[s][i].k = "noupdates"

\* C13 as stated: a sync that reports "No updates" has sent no op request, no
\* de-op and no command
C13_NoUpdatesNoOpNoDeop ==
  \A s \in Syncs :
    NoUpdates(s) =>
      \A i \in DOMAIN out[s] : out[s][i].k \notin {"op", "deop", "flag", "mode"}

\* C13, amended: "No updates" is reported exactly when both lists of the diff
\* are empty; the sync then sends no command and no op request after its list
\* queries, sends the de-op and ends
C13_NoUpdatesThenDeop ==
  /\ [](\A s \in Syncs :
          NoUpdates(s) =>
            /\ pc[s] = "done"
            /\ Len(out[s]) >= 2
            /\ SubSeq(out[s], Len(out[s]) - 1, Len(out[s])) = <<Msg("noupdates"), Msg("deop")>>
            /\ \A i, j \in DOMAIN out[s] :
                 /\ out[s][i].k \notin {"flag", "mode"}
                 /\ (out[s][i].k = "listI" /\ i < j) => out[s][j].k # "op")
  /\ [][\A s \in Syncs :
         (pc[s] = "remove" /\ pc'[s] \in {"done", "apply", "poll2"}) =>
           LET m == channels[req[s].target]
           IN IF NoUpdates(s)'
              THEN \E cfg \in Configs : fix_flags(m, cfg) = {} /\ fix_modes(m, cfg) = <<>>
              ELSE \E cfg \in Configs :
                     /\ work'[s] = [flag_cmds |-> fix_flags(m, cfg),
                                    mode_cmds |-> fix_modes(m, cfg)]
                     /\ work'[s] # NoWork]_vars

\* a sync that asked for op found nothing to change, said so and de-opped
C13_NoUpdatesAfterOp ==
  \E s \in Syncs :
    /\ pc[s] = "done"
    /\ out[s] = <<Msg("syncing"), Msg("op"), Msg("listb"), Msg("listI"),
                  Msg("noupdates"), Msg("deop")>>

\* the de-op commands a sync has sent
Deops(s) == Cardinality({i \in DOMAIN out[s] : out[s][i].k = "deop"})

\* C14: the step that applies a sync's commands sends every command of the
\* diff with its confirmation and then one de-op; a finished sync has sent
\* exactly one de-op, as its last message, whether it had asked for op or found
\* the bot opped
C14_OneDeopAfterCommands ==
  /\ [](\A s \in Syncs :
          pc[s] = "done" =>
            /\ Deops(s) = 1
            /\ out[s][Len(out[s])] = Msg("deop"))
  /\ [][\A s \in Syncs :
         (pc[s] = "apply" /\ pc'[s] = "done") =>
           LET sent == SubSeq(out'[s], Len(out[s]) + 1, Len(out'[s]))
               cmds == SelectSeq(sent, LAMBDA m : m.k \in {"flag", "mode"})
           IN /\ SubSeq(out'[s], 1, Len(out[s])) = out[s]
              /\ {<<cmds[i].a, cmds[i].m>> : i \in {j \in DOMAIN cmds : cmds[j].k = "flag"}}
                   = work[s].flag_cmds
              /\ Len(cmds) = Cardinality(work[s].flag_cmds) + Len(work[s].mode_cmds)
              /\ \A i \in DOMAIN work[s].mode_cmds :
                   cmds[Cardinality(work[s].flag_cmds) + i].m = work[s].mode_cmds[i]
              /\ Len(sent) = 2 * Len(cmds) + 1
              /\ sent[Len(sent)] = Msg("deop")
              /\ Deops(s) = 0]_vars

\* a sync that found the bot opped, and so never asked for op, applied its
\* commands and de-opped
C14_DeopWithoutOpRequest ==
  \E s \in Syncs :
    /\ pc[s] = "done"
    /\ OpRequests(s) = 0
    /\ Cmds(s) # <<>>
    /\ out[s][Len(out[s])] = Msg("deop")

\* a sync that has ended, in whatever way
Ended(s) == pc[s] \in {"done", "rejected", "failed", "panic"}

\* C15: once every sync of a room has ended, and one of them had asked for op,
\* the bot is not opped in the room
C15_PrivilegeAlwaysRevoked ==
  \A r \in Rooms :
    (/\ \E s \in Syncs : req[s].target = r /\ OpRequests(s) > 0
     /\ \A s \in Syncs : req[s].target = r => Ended(s))
      => r \notin opped

\* C16: a configuration that cannot be read is reported by one notice, the
\* last message of the sync, which ends having sent no command and holding
\* none to send
C16_ConfigErrorAborts ==
  \A s \in Syncs :
    \A i \in DOMAIN out[s] :
      out[s][i].k = "cfgerr" =>
        /\ i = Len(out[s])
        /\ pc[s] = "panic"
        /\ Cmds(s) = <<>>
        /\ work[s] = NoWork

\* a sync got the lists of its room and then could not read the configuration
C16_ConfigErrorAfterLists ==
  \E s \in Syncs :
    /\ pc[s] = "panic"
    /\ out[s] = <<Msg("syncing"), Msg("op"), Msg("listb"), Msg("listI"), Msg("cfgerr")>>

\* C17: a send that fails while the commands are applied is the end of the
\* sync: nothing is sent for the sync after it, no command and no de-op, and
\* the commands not yet sent are dropped
C17_SendFailureAborts ==
  \A s \in Syncs :
    \A i \in DOMAIN out[s] :
      out[s][i].k = "senderr" =>
        /\ i = Len(out[s])
        /\ pc[s] = "panic"
        /\ work[s] = NoWork

\* the confirmation of a sync's first flags command failed to go out: the sync
\* ended there
C17_FailedAfterFirstCommand ==
  \E s \in Syncs :
    /\ pc[s] = "panic"
    /\ Len(Cmds(s)) = 1
    /\ out[s][Len(out[s])].k = "senderr"
    /\ out[s][Len(out[s])].a = Cmds(s)[1].a

\* the notices that report an error of a sync: the request was made outside a
\* room, the requestor may not sync, the configuration cannot be read, op was
\* not obtained
ErrorKinds == {"inchannel", "denied", "cfgerr", "operr"}

ErrorNotices(s) == Cardinality({i \in DOMAIN out[s] : out[s][i].k \in ErrorKinds})

\* the sync ends in this step, by one of these errors
ErrorStep(s) ==
  /\ ~Ended(s)
  /\ Ended(s)'
  /\ ErrorNotices(s)' > ErrorNotices(s)

\* C18: a sync reports at most one error, and a sync refused or failed has
\* reported exactly one; the step in which a sync ends by such an error
\* sends that one notice and touches nothing of the listener, of ChanServ's and
\* the server's queues, of the other syncs or of the other rooms'
\* accumulators
C18_ErrorsAreOneNotice ==
  /\ [](\A s \in Syncs :
          /\ ErrorNotices(s) <= 1
          /\ pc[s] \in {"rejected", "failed"} => ErrorNotices(s) = 1
          /\ ErrorNotices(s) = 1 =>
               /\ Ended(s)
               /\ out[s][Len(out[s])].k \in ErrorKinds)
  /\ [][\A s \in Syncs :
         ErrorStep(s) =>
           /\ out'[s] = Append(out[s], out'[s][Len(out'[s])])
           /\ UNCHANGED <<chanserv, csq, listenVars, csVars, srvVars, opped>>
           /\ \A t \in Syncs \ {s} :
                pc'[t] = pc[t] /\ req'[t] = req[t] /\ work'[t] = work[t] /\ out'[t] = out[t]
           /\ \A r \in Rooms \ {req'[s].target} :
                /\ r \in DOMAIN channels <=> r \in DOMAIN channels'
                /\ r \in DOMAIN channels => channels'[r] = channels[r]]_vars

\* a request made in a private message was answered and its handler ended;
\* the sync of a room requested after it ran to its end
C18_SyncAfterError ==
  /\ pc[1] = "panic"
  /\ out[1] = <<Msg("inchannel")>>
  /\ pc[2] = "done"
  /\ req[2].target \in Rooms
  /\ lpc = "recv"

\* C19: a sync that has seen its room's accumulator done and goes on to remove
\* it finds the accumulator in the map, also when another sync of the same
\* room runs at the same time
C19_AccumulatorPresentAtRemoval ==
  \A s \in Syncs : pc[s] = "remove" => req[s].target \in DOMAIN channels

\* a handler writes to the room's accumulator in this step: the listener
\* records a data line or an "End of" line for the room, or a list reply for the
\* room is handled
WritesTo(r) ==
  \/ /\ NoticeStep
     /\ ~IsSkipped(Head(csq))
     /\ chanserv = r
  \/ /\ srvin # <<>>
     /\ Head(srvin).room = r
     /\ sn' = sn + 1 \/ srvin' = Tail(srvin)

\* C20: while a room's accumulator is in the map and is_done, no handler writes
\* to it
C20_NoWriteAfterDone ==
  [][\A r \in Rooms : is_channel_done(channels, r) => ~WritesTo(r)]_vars

\* the letters of a tier, as the claims spell them
TierLetters ==
  [founders |-> {"A", "F", "R", "e", "f", "i", "o", "r", "s", "t", "v"},
   crats |-> {"A", "f", "i", "o", "r", "t", "v"},
   ops |-> {"A", "i", "o", "t", "v"},
   plus_o |-> {"o"},
   autovoice |-> {"V", "v"}]

\* every account of the inputs
PureAccounts == HeldAccounts \cup ListedAccounts \cup {LIBERA_STAFF, LITHARGE, WMOPBOT}

\* the letters an account is to hold: those of every tier that lists it, and
\* the injected grants
Desired(cfg, a) ==
  UNION {TierLetters[tier] : tier \in {x \in Tiers : a \in cfg[x]}}
  \cup (IF cfg.libera_staff /\ a \in {"*!*@libera/staff/*", "litharge"} THEN {"o"} ELSE {})
  \cup (IF cfg.wmopbot /\ a = "wmopbot" THEN {"o", "t"} ELSE {})

\* the letters an account holds
Held(m, a) == IF a \in DOMAIN m.current THEN m.current[a] ELSE {}

\* the letters a mode string gives and takes
Added(mode) == ApplyMode({}, mode, "+")
Removed(mode) == DOMAIN CodePoint \ ApplyMode(DOMAIN CodePoint, mode, "+")

\* C21: fix_flags has one command for an account exactly when the letters it
\* holds differ from the letters it is to hold, and the command takes the
\* letters held and not wanted and gives the letters wanted and not held; live
\* {foo: AFRefiorstv} with founders {bar} and ops {foo} gives bar +AFRefiorstv
\* and foo -FRefrs
C21_FlagsDiffExact ==
  pure.phase = "diffed" =>
    LET m == pure.managed
        cfg == pure.cfg
        res == pure.flag_cmds
    IN /\ \A c \in res :
            /\ c[1] \in PureAccounts
            /\ \A d \in res : d[1] = c[1] => d = c
            /\ Removed(c[2]) = Held(m, c[1]) \ Desired(cfg, c[1])
            /\ Added(c[2]) = Desired(cfg, c[1]) \ Held(m, c[1])
       /\ \A a \in PureAccounts :
            (Held(m, a) # Desired(cfg, a)) <=> (\E c \in res : c[1] = a)
       /\ (/\ m.current = [a \in {"foo"} |-> TierLetters.founders]
           /\ cfg.founders = {"bar"} /\ cfg.ops = {"foo"}
           /\ cfg.crats = {} /\ cfg.plus_o = {} /\ cfg.autovoice = {}
           /\ ~cfg.libera_staff /\ ~cfg.wmopbot) =>
            res = {<<"bar", <<"+", "A", "F", "R", "e", "f", "i", "o", "r", "s", "t", "v">>>>,
                   <<"foo", <<"-", "F", "R", "e", "f", "r", "s">>>>}

\* the diff of test_fix_flags has been made
C21_TestFixFlags ==
  /\ pure.phase = "diffed"
  /\ pure.managed.current = [a \in {"foo"} |-> FOUNDER]
  /\ pure.cfg = [DefaultConfig EXCEPT !.founders = {"bar"}, !.ops = {"foo"}]
  /\ Cardinality(pure.flag_cmds) = 2

\* the letters an account holds once the commands of the diff are carried out
After(a) ==
  IF \E c \in pure.flag_cmds : c[1] = a
  THEN ApplyMode(Held(pure.managed, a), (CHOOSE c \in pure.flag_cmds : c[1] = a)[2], "+")
  ELSE Held(pure.managed, a)

\* the tiers that list an account
TiersOf(cfg, a) == {tier \in Tiers : a \in cfg[tier]}

\* C22: an account listed in two or more tiers ends with the letters of every
\* one of these tiers, and with no letter that none of them (and no grant)
\* gives
C22_TiersUnite ==
  pure.phase = "diffed" =>
    \A a \in PureAccounts :
      Cardinality(TiersOf(pure.cfg, a)) >= 2 =>
        /\ \A tier \in TiersOf(pure.cfg, a) : TierLetters[tier] \subseteq After(a)
        /\ After(a) \subseteq
             UNION {TierLetters[tier] : tier \in TiersOf(pure.cfg, a)}
             \cup (IF a = "wmopbot" \/ a \in {"*!*@libera/staff/*", "litharge"}
                   THEN {"o", "t"} ELSE {})

\* an account without letters, listed as founder and as autovoice, is given
\* the letters of both tiers
C22_FounderAndAutovoice ==
  /\ pure.phase = "diffed"
  /\ pure.cfg.founders = {"foo"} /\ pure.cfg.autovoice = {"foo"}
  /\ pure.managed.current = <<>>
  /\ <<"foo", <<"+", "A", "F", "R", "V", "e", "f", "i", "o", "r", "s", "t", "v">>>>
       \in pure.flag_cmds

Signs == {"+", "-"}

\* a mode string of the form [-letters][+letters], not empty, each sign
\* followed by at least one letter, the letters after one sign in ascending
\* code-point order
WellFormed(mode) ==
  LET minus == {i \in DOMAIN mode : mode[i] = "-"}
      plus == {i \in DOMAIN mode : mode[i] = "+"}
  IN /\ mode # <<>>
     /\ mode[1] \in Signs
     /\ mode[Len(mode)] \notin Signs
     /\ minus \subseteq {1}
     /\ Cardinality(plus) <= 1
     /\ \A i \in plus : i = 1 \/ (minus = {1} /\ i > 2)
     /\ \A i \in 1..(Len(mode) - 1) :
          (mode[i] \notin Signs /\ mode[i + 1] \notin Signs) =>
            CodePoint[mode[i]] < CodePoint[mode[i + 1]]

\* C23: every mode string of the diff is "-" and the removed letters, if any,
\* then "+" and the added letters, if any, each run in ascending code-point
\* order; it is not empty and no letter is both removed and added
C23_ModeStringForm ==
  pure.phase = "diffed" =>
    \A c \in pure.flag_cmds :
      /\ WellFormed(c[2])
      /\ Removed(c[2]) \cap Added(c[2]) = {}
      /\ Len(c[2]) = Cardinality(Removed(c[2])) + Cardinality(Added(c[2]))
                       + (IF Removed(c[2]) # {} THEN 1 ELSE 0)
                       + (IF Added(c[2]) # {} THEN 1 ELSE 0)

\* a mode string with both parts: letters of no tier are taken, the letters of
\* the op tier given
C23_RemoveThenAdd ==
  /\ pure.phase = "diffed"
  /\ <<"foo", <<"-", "F", "s", "+", "A", "i", "o", "t", "v">>>> \in pure.flag_cmds

\* C24: the diff of the live state that the commands of a diff have produced,
\* against the same configuration, has no flags command and no mode command
C24_DiffIdempotent ==
  pure.phase = "rediffed" => (pure.flag_cmds = {} /\ pure.mode_cmds = <<>>)

\* two flags commands and a mode command were carried out and the diff was run
\* again
C24_RediffAfterThreeCommands ==
  /\ pure.phase = "rediffed"
  /\ pure.sent = 3
  /\ pure.flag_cmds = {}

\* C25: fix_modes has one command that sets the ban on "$j:#wikimedia-bans" when
\* the configuration wants the global bans and the live bans lack the mask,
\* one command that lifts it when the configuration does not want them and
\* the mask is there, and no command otherwise; no other ban and no invite
\* exception, live or configured, has any part in it
C25_OnlyGlobalBanMask ==
  pure.phase = "diffed" =>
    LET m == pure.managed
        cfg == pure.cfg
        present == "$j:#wikimedia-bans" \in m.bans
    IN /\ (cfg.global_bans /\ ~present) => pure.mode_cmds = <<<<"+b", "$j:#wikimedia-bans">>>>
       /\ (~cfg.global_bans /\ present) => pure.mode_cmds = <<<<"-b", "$j:#wikimedia-bans">>>>
       /\ (cfg.global_bans <=> present) => pure.mode_cmds = <<>>
       /\ pure.mode_cmds =
            fix_modes([m EXCEPT !.bans = @ \ {OTHER_BAN}, !.invexes = {}, !.current = <<>>],
                      [DefaultConfig EXCEPT !.global_bans = cfg.global_bans])

\* with another ban and an invite exception on the room and an invite
\* exception configured, the one command lifts the global ban mask
C25_MaskLiftedOthersKept ==
  /\ pure.phase = "diffed"
  /\ pure.managed.bans = {GLOBAL_BANS, OTHER_BAN}
  /\ pure.managed.invexes = {OTHER_INVEX}
  /\ pure.cfg.invexes = {OTHER_INVEX}
  /\ pure.mode_cmds = <<<<"-b", GLOBAL_BANS>>>>

\* C26: an account that holds letters, is listed in no tier and gets no grant
\* has a command that is "-" and all its letters, whatever these letters are;
\* an account that holds none and is to hold none has no command
C26_UnlistedStripped ==
  pure.phase = "diffed" =>
    \A a \in PureAccounts :
      /\ (Held(pure.managed, a) # {} /\ Desired(pure.cfg, a) = {}) =>
           \E c \in pure.flag_cmds :
             /\ c[1] = a
             /\ c[2][1] = "-"
             /\ Len(c[2]) = 1 + Cardinality(Held(pure.managed, a))
             /\ {c[2][i] : i \in 2..Len(c[2])} = Held(pure.managed, a)
      /\ (Held(pure.managed, a) = {} /\ Desired(pure.cfg, a) = {}) =>
           \A c \in pure.flag_cmds : c[1] # a

\* an account that holds two letters of no tier and is not configured loses
\* both, while the one configured account gets its letters
C26_UnknownLettersRemoved ==
  /\ pure.phase = "diffed"
  /\ pure.managed.current = [a \in {"foo"} |-> {"F", "s"}]
  /\ pure.cfg.ops = {"bar"}
  /\ pure.flag_cmds = {<<"foo", <<"-", "F", "s">>>>, <<"bar", <<"+", "A", "i", "o", "t", "v">>>>}

\* the letters the tiers that list an account give it
FromTiers(cfg, a) == UNION {TierLetters[tier] : tier \in TiersOf(cfg, a)}

\* C27: with the staff toggle on, the staff mask and litharge end with "o"
\* next to the letters of their tiers, with the op-bot toggle on wmopbot ends
\* with "o" and "t" next to them; with a toggle off its accounts end with the
\* letters of their tiers and no other; on an empty live state the staff toggle
\* alone gives "+o" to its two accounts and nothing else
C27_InjectedGrants ==
  pure.phase = "diffed" =>
    LET cfg == pure.cfg
    IN /\ \A a \in {"*!*@libera/staff/*", "litharge"} :
            After(a) = FromTiers(cfg, a) \cup (IF cfg.libera_staff THEN {"o"} ELSE {})
       /\ After("wmopbot") = FromTiers(cfg, "wmopbot")
                               \cup (IF cfg.wmopbot THEN {"o", "t"} ELSE {})
       /\ (/\ pure.managed.current = <<>>
           /\ cfg.libera_staff /\ ~cfg.wmopbot
           /\ \A tier \in Tiers : cfg[tier] = {}) =>
            pure.flag_cmds = {<<"*!*@libera/staff/*", <<"+", "o">>>>, <<"litharge", <<"+", "o">>>>}

\* the staff toggle is on and the op-bot toggle off: litharge, which held the
\* op letters, is left with "o", and wmopbot is given nothing
C27_StaffOnOpBotOff ==
  /\ pure.phase = "diffed"
  /\ pure.cfg.libera_staff /\ ~pure.cfg.wmopbot
  /\ pure.managed.current = [a \in {LITHARGE} |-> OP]
  /\ pure.flag_cmds = {<<LIBERA_STAFF, <<"+", "o">>>>, <<LITHARGE, <<"-", "A", "i", "t", "v">>>>}

\* C28: ingesting a line that the record pattern matches makes the letters of
\* the line the entry of its account, whatever the entry was, and leaves the
\* other entries, the bans, the invite exceptions and the three completion
\* flags as they were
C28_IngestOverwritesEntry ==
  [][(pure.phase = "ingest" /\ pure' # pure /\ pure'.line.kind = "data") =>
       LET line == pure'.line
           old == pure.managed
           new == pure'.managed
       IN /\ DOMAIN new.current = DOMAIN old.current \cup {line.account}
          /\ new.current[line.account] = {line.letters[i] : i \in DOMAIN line.letters}
          /\ \A a \in DOMAIN old.current \ {line.account} : new.current[a] = old.current[a]
          /\ new.bans = old.bans
          /\ new.invexes = old.invexes
          /\ new.flags_done = old.flags_done
          /\ new.bans_done = old.bans_done
          /\ new.invexes_done = old.invexes_done]_vars

\* lines for two accounts have been ingested, the last one for an account that
\* had an entry: each account has the letters of its last line
C28_TwoAccountsRecorded ==
  /\ pure.phase = "ingest"
  /\ pure.line = NoticeMsg("data", "foo", <<"A", "i", "o", "t", "v">>, None)
  /\ pure.managed.current = [a \in {"foo", "bar"} |-> IF a = "foo" THEN OP ELSE FOUNDER]
  /\ pure.managed.bans = {OTHER_BAN}

Before(room) == IF room \in DOMAIN channels THEN channels[room] ELSE DefaultChannel

\* the fields of an accumulator other than the given ones are the same
SameBut(old, new, fields) ==
  \A f \in DOMAIN old \ fields : new[f] = old[f]

\* C30: a ban-list (invite-exception-list) entry for a room adds its one mask
\* to the room's bans (invexes), the end of that list sets the room's bans_done
\* (invexes_done); nothing else of the room's accumulator changes, and neither
\* the slot nor the accumulator of another room does
C30_ResponseFrame ==
  [][hist'.did = "resp" /\ hist'.kind # "RPL_ENDOFNAMES" =>
       LET room == hist'.looking
           mask == hist'.from
           old == Before(room)
           new == channels'[room]
       IN /\ chanserv' = chanserv
          /\ DOMAIN channels' = DOMAIN channels \cup {room}
          /\ \A q \in DOMAIN channels \ {room} : channels'[q] = channels[q]
          /\ hist'.kind = "RPL_BANLIST" =>
               new.bans = old.bans \cup {mask} /\ SameBut(old, new, {"bans"})
          /\ hist'.kind = "RPL_ENDOFBANLIST" =>
               new.bans_done /\ SameBut(old, new, {"bans_done"})
          /\ hist'.kind = "RPL_INVITELIST" =>
               new.invexes = old.invexes \cup {mask} /\ SameBut(old, new, {"invexes"})
          /\ hist'.kind = "RPL_ENDOFINVITELIST" =>
               new.invexes_done /\ SameBut(old, new, {"invexes_done"})]_vars

\* an invite exception was reported for #a while the slot names #b: #a has it
\* next to its ban, its lists are not complete, and #b's letters are there
C30_InvexNextToBan ==
  /\ hist = [did |-> "resp", looking |-> "#a", kind |-> "RPL_INVITELIST",
             from |-> OTHER_INVEX]
  /\ chanserv = "#b"
  /\ DOMAIN channels = Rooms
  /\ channels["#a"].bans = {GLOBAL_BANS}
  /\ channels["#a"].invexes = {OTHER_INVEX}
  /\ ~channels["#a"].bans_done
  /\ ~channels["#a"].invexes_done
  /\ DOMAIN channels["#b"].current = {"bob"}

\* a sync in one of its waits: for flags_done, for op, or for is_done
Waits == {"waitflags", "poll1", "poll2", "waitdone"}

\* the listener will take no further message from its queue: it turns in its
\* loop on a slot that only its own handling of an "End of" line frees, or its
\* task has panicked
ListenerStopped == (lpc = "poll" /\ chanserv # None) \/ lpc = "panic"

\* C31: while a sync waits, a ChanServ notice that has arrived in the
\* listener's queue can still be handled: the listener has not stopped taking
\* messages
C31_RoutingNeverBlocked ==
  \A s \in Syncs :
    (pc[s] \in Waits /\ \E i \in DOMAIN csq : csq[i].type = "Notice")
      => ~ListenerStopped

\* C32: two runs of the diff on the same live state and configuration return
\* the same (account, mode string) pairs, each once, whatever the order of
\* the two vectors, and the same mode commands; the pairs are those of
\* fix_flags
C32_RunsAgree ==
  pure.phase = "twice" =>
    /\ SeqToSet(pure.first.flags) = SeqToSet(pure.second.flags)
    /\ Len(pure.first.flags) = Len(pure.second.flags)
    /\ Len(pure.first.flags) = Cardinality(SeqToSet(pure.first.flags))
    /\ pure.first.modes = pure.second.modes
    /\ SeqToSet(pure.first.flags) = fix_flags(pure.managed, pure.cfg)

\* two runs under different seeds returned the same two pairs in different
\* orders, one of them with letters to take and letters to give, next to a mode
\* command
C32_SamePairsOtherOrder ==
  /\ pure.phase = "twice"
  /\ pure.first.seed # pure.second.seed
  /\ Len(pure.first.flags) = 2
  /\ pure.first.flags # pure.second.flags
  /\ \E i \in DOMAIN pure.first.flags :
       pure.first.flags[i][2] = <<"-", "F", "s", "+", "A", "i", "o", "t", "v">>
  /\ pure.first.modes # <<>>

\* C33: wait_for_op asks ChanServ for op at most once, on entry, and only if
\* the bot's entry in the room's user list is not opped then; entered with the
\* bot opped, it succeeds at once and sends nothing; otherwise it succeeds
\* only on a turn of its loop that finds the bot opped
C33_OpAskedOnceThenPolled ==
  [][\A s \in Syncs :
       LET room == req[s].target
           polling == pc[s] \in {"poll1", "poll2"}
       IN /\ OpRequests(s)' <= OpRequests(s) + 1
          /\ (is_opped_in(room) \/ polling) => OpRequests(s)' = OpRequests(s)
          /\ (pc[s] = "auth" /\ pc'[s] \in {"waitdone", "poll1"}) =>
               IF is_opped_in(room)
               THEN /\ pc'[s] = "waitdone"
                    /\ out'[s] = out[s] \o <<Msg("syncing"), Msg("listb"), Msg("listI")>>
               ELSE /\ pc'[s] = "poll1"
                    /\ out'[s] = out[s] \o <<Msg("syncing"), Msg("op")>>
                    /\ room \in opreq'
          /\ (pc[s] = "remove" /\ pc'[s] = "poll2") =>
               /\ ~is_opped_in(room)
               /\ out'[s] = Append(out[s], Msg("op"))
               /\ room \in opreq'
          /\ (polling /\ pc'[s] \in {"waitdone", "apply"}) => is_opped_in(room)
          /\ (polling /\ pc'[s] = pc[s]) => out'[s] = out[s]]_vars

\* two syncs of #a are past their first wait for op: the first asked once and
\* went on when a turn of the loop found the bot opped, the second found it
\* opped and asked nothing
C33_OneAskedOneFoundOp ==
  /\ req[1].target = "#a" /\ req[2].target = "#a"
  /\ pc[1] = "waitdone" /\ pc[2] = "waitdone"
  /\ out[1] = <<Msg("syncing"), Msg("op"), Msg("listb"), Msg("listI")>>
  /\ out[2] = <<Msg("syncing"), Msg("listb"), Msg("listI")>>
  /\ "#a" \in opped

\* C34: whenever the listener is about to handle an "End of" line while the
\* slot names a room, the room has an accumulator in the map
C34_AccumulatorAtTerminator ==
  (/\ lpc = "recv"
   /\ csq # <<>>
   /\ Head(csq).type = "Notice"
   /\ Head(csq).kind = "end"
   /\ chanserv # None)
    => chanserv \in DOMAIN channels

\* C35: when a sync begins for a room and every earlier sync of that room has
\* ended, the room has no accumulator, so flags_done and is_done are not
\* true for the sync before its own query is even sent
C35_NoLeftOverAccumulator ==
  [][\A s \in Syncs :
       (/\ pc[s] = "idle"
        /\ pc'[s] = "waitflags"
        /\ \A t \in Syncs \ {s} : req[t].target = req'[s].target => Ended(t))
         => /\ req'[s].target \notin DOMAIN channels
            /\ ~is_flags_done(channels, req'[s].target)
            /\ ~is_channel_done(channels, req'[s].target)]_vars

====
